---- MODULE Spec2Model ----
(***************************************************************************)
(* Verification model of TheTowerAutomation's control core:                *)
(*   - the clickmap store (core/clickmap_access.py),                       *)
(*   - the state classifier (core/state_detector.py),                      *)
(*   - the tap dispatcher (core/tap_dispatcher.py),                        *)
(*   - the Demon-Mode mission round and campaign                           *)
(*     (handlers/mission_demon_mode.py),                                   *)
(*   - the clickmap file as save_clickmap rewrites it,                     *)
(*   - the shared run state / execution mode (core/automation_state.py),   *)
(*   - the process watchdog (core/watchdog.py),                            *)
(*   - the region matcher (core/matcher.py),                               *)
(*   - the foreground-package parser (core/watchdog.py),                   *)
(*   - the blind gem tapper (handlers/ad_gem_handler.py).                  *)
(* Each component has its own specification; the variables of the other    *)
(* components stay at their initial values under it.                       *)
(***************************************************************************)
EXTENDS Integers, Sequences, FiniteSets, TLC

VARIABLES
    \* ---- clickmap store ----
    clickmap,     \* the module-global _clickmap dict
    before,       \* _clickmap as it was when the last call started
    call,         \* the last call: [op, path, value, ow, data]
    ret,          \* what the last call returned or raised: [exc, val]
    nsets,        \* number of set_dot_path calls made so far
    \* ---- tap dispatcher ----
    TAP_QUEUE,    \* the queue.Queue of (x, y, label, log_it) tuples
    submitted,    \* every tuple put by tap(), in the order of the puts
    devcalls,     \* the adb "input tap x y" calls made, in order
    item,         \* the tuple the worker holds between get and tap (<<>> if none)
    worker,       \* the worker thread: "get", "tap" or "dead"
    \* ---- state classifier ----
    state_definitions,  \* the loaded YAML: [states, overlays]; each match key
                        \* carries what matching it does on the current frame
    detected,     \* the last detect_state_and_overlays call: [called, exc, result]
    \* ---- mission round and campaign ----
    cfg,          \* the MissionConfig of the run, with the dry_run and
                  \* on_event arguments
    rnd,          \* run_demon_mode_strategy's frame: pc, now (monotonic clock,
                  \* counted from t0), deadline, end_by, p0, attempts,
                  \* remaining, phases, errors, outcome, the events emitted
                  \* and the number of callback errors caught
    obs,          \* what the round has met so far (the environment's history)
    ccfg,         \* run_demon_mode_campaign's arguments
    camp,         \* run_demon_mode_campaign's frame
    stopfile_exists,  \* os.path.exists(stopfile), at this moment
    \* ---- clickmap file ----
    fs,           \* the files of config/: path -> [exists, content]
    saver,        \* save_clickmap's frame: pc, data, todo, prev, nsaves
    \* ---- shared control ----
    AUTOMATION,   \* the AutomationControl singleton: _state, _mode, _lock
                  \* (the name of the holder, or "free"), and the number of
                  \* assignments made to it so far
    frames,       \* per thread, its current property access on AUTOMATION
    ncalls,       \* number of property accesses started so far
    \* ---- watchdog ----
    wd,           \* watchdog_process_check's thread: pc, iters, pid_running,
                  \* foregrounded, acts (what this iteration did to the
                  \* device and to AUTOMATION), exc, _last_foreground_pkg,
                  \* snap (AUTOMATION as the iteration found it), touched
                  \* (another thread assigned AUTOMATION since)
    \* ---- region matcher ----
    matcher,      \* one get_match call: the dot-path, what the template
                  \* file and the frame are like, and what the call gave
    \* ---- foreground parser ----
    parsed,       \* one _parse_pkg_from_text call: [called, text, pkg]
    \* ---- blind tapper ----
    blind         \* _blind_tapper_active, _blind_tapper_stop, the threads that
                  \* call start/stop and the tappers started

storeVars == <<clickmap, before, call, ret, nsets>>

tapVars == <<TAP_QUEUE, submitted, devcalls, item, worker>>

detVars == <<state_definitions, detected>>

misVars == <<cfg, rnd, obs, ccfg, camp, stopfile_exists>>

saveVars == <<fs, saver>>

ctlVars == <<AUTOMATION, frames, ncalls>>

wdVars == <<wd>>

fnVars == <<matcher, parsed, blind>>

auxVars == <<saveVars, ctlVars, wdVars, fnVars>>

vars == <<storeVars, tapVars, detVars, misVars, auxVars>>

(***************************************************************************)
(* Python values of the clickmap document.  A value is a dict (kids maps   *)
(* its keys to values) or a non-dict leaf; None is the leaf Python uses    *)
(* both for JSON null and for "nothing found".                             *)
(***************************************************************************)
NoKids == [k \in {} |-> 0]

Leaf(x) == [dict |-> FALSE, kids |-> NoKids, val |-> x]

Dict(f) == [dict |-> TRUE, kids |-> f, val |-> "dict"]

None == Leaf("None")

PyBool(b) == Leaf(IF b THEN "True" ELSE "False")

EmptyDict == Dict(NoKids)

\* d[k] = v on a dict's key map
Put(f, k, v) == [x \in (DOMAIN f) \cup {k} |-> IF x = k THEN v ELSE f[x]]

\* Python truthiness: None and the empty dict are falsy
Truthy(v) == IF v.dict THEN DOMAIN v.kids # {} ELSE v.val # "None"

\* ---- bounds of the store model ----
MaxPathLen == 2

MaxSets == 1

Keys == {"a", "b"}

\* dot_path.split("."): a dot-path is modelled by its list of segments
DotPaths == UNION {[1..n -> Keys] : n \in 1..MaxPathLen}

\* values handed to set_dot_path
SetValues == {None, Leaf("x"), EmptyDict}

\* root mappings handed to resolve_dot_path as `data` (None = not supplied)
DataRoots == {None, EmptyDict,
              Dict([k \in {"a", "b"} |->
                       IF k = "a" THEN Leaf("y") ELSE Dict([j \in {"a"} |-> Leaf("y")])])}

\* documents json.load may have produced at import time ({} on a load error)
InitClickmaps == {EmptyDict,
                  Dict([k \in {"a"} |-> Leaf("x")]),
                  Dict([k \in {"a"} |-> Dict([j \in {"b"} |-> Leaf("x")])]),
                  Dict([k \in {"a", "b"} |-> IF k = "a" THEN None ELSE EmptyDict]),
                  Dict([k \in {"a", "b"} |->
                           IF k = "b" THEN Leaf("x")
                           ELSE Dict([j \in {"a", "b"} |->
                                         IF j = "a" THEN Leaf("y") ELSE EmptyDict])])}

(***************************************************************************)
(* resolve_dot_path: walk the segments from `data or _clickmap`.           *)
(***************************************************************************)
RECURSIVE Walk(_, _)
Walk(cur, parts) ==
    IF parts = <<>> THEN cur
    ELSE IF cur.dict /\ Head(parts) \in DOMAIN cur.kids
         THEN Walk(cur.kids[Head(parts)], Tail(parts))
         ELSE None

resolve_root(data) == IF Truthy(data) THEN data ELSE clickmap

resolve_dot_path(dot_path, data) == Walk(resolve_root(data), dot_path)

dot_path_exists(dot_path, data) == resolve_dot_path(dot_path, data) # None

(***************************************************************************)
(* set_dot_path: the walk mutates _clickmap in place, so whatever it has   *)
(* created is still there when it raises; `node` is the dict after the     *)
(* call, `exc` the exception raised ("ok" for none).                       *)
(***************************************************************************)
RECURSIVE SetInWrong(_, _, _, _)
SetInWrong(cur, parts, value, ow) ==
    IF Len(parts) = 1
    THEN [exc |-> IF parts[1] \in DOMAIN cur.kids /\ ~ow THEN "KeyError" ELSE "ok",
          node |-> Dict(Put(cur.kids, parts[1], value))]
    ELSE LET p == Head(parts) IN
         IF p \notin DOMAIN cur.kids
         THEN LET r == SetInWrong(EmptyDict, Tail(parts), value, ow)
              IN  [exc |-> r.exc, node |-> Dict(Put(cur.kids, p, r.node))]
         ELSE IF ~cur.kids[p].dict
         THEN [exc |-> "ValueError", node |-> cur]
         ELSE LET r == SetInWrong(cur.kids[p], Tail(parts), value, ow)
              IN  [exc |-> r.exc, node |-> Dict(Put(cur.kids, p, r.node))]

SetInFlat(cur, parts, value, ow) ==
    LET k == parts[Len(parts)] IN
    IF k \in DOMAIN cur.kids /\ ~ow
    THEN [exc |-> "KeyError", node |-> cur]
    ELSE [exc |-> "ok", node |-> Dict(Put(cur.kids, k, value))]

RECURSIVE SetIn(_, _, _, _)
SetIn(cur, parts, value, ow) ==
    IF Len(parts) = 1
    THEN IF parts[1] \in DOMAIN cur.kids /\ ~ow
         THEN [exc |-> "KeyError", node |-> cur]
         ELSE [exc |-> "ok", node |-> Dict(Put(cur.kids, parts[1], value))]
    ELSE LET p == Head(parts) IN
         IF p \notin DOMAIN cur.kids
         THEN LET r == SetIn(EmptyDict, Tail(parts), value, ow)
              IN  [exc |-> r.exc, node |-> Dict(Put(cur.kids, p, r.node))]
         ELSE IF ~cur.kids[p].dict
         THEN [exc |-> "ValueError", node |-> cur]
         ELSE LET r == SetIn(cur.kids[p], Tail(parts), value, ow)
              IN  [exc |-> r.exc, node |-> Dict(Put(cur.kids, p, r.node))]

set_dot_path_flat(dot_path, value, allow_overwrite) ==
    SetInFlat(clickmap, dot_path, value, allow_overwrite)

set_dot_path_wrong(dot_path, value, allow_overwrite) ==
    SetInWrong(clickmap, dot_path, value, allow_overwrite)

set_dot_path(dot_path, value, allow_overwrite) ==
    SetIn(clickmap, dot_path, value, allow_overwrite)

NoCall == [op |-> "none", path |-> <<>>, value |-> None, ow |-> FALSE, data |-> None]

\* the store before any call, when another component is under study
StoreIdle ==
    /\ clickmap = EmptyDict
    /\ before = EmptyDict
    /\ call = NoCall
    /\ ret = [exc |-> "ok", val |-> None]
    /\ nsets = 0

StoreInit ==
    /\ clickmap \in InitClickmaps
    /\ before = clickmap
    /\ call = NoCall
    /\ ret = [exc |-> "ok", val |-> None]
    /\ nsets = 0

\* a caller runs set_dot_path(path, value, allow_overwrite)
SetDotPath ==
    \E path \in DotPaths, value \in SetValues, ow \in BOOLEAN :
        LET r == set_dot_path(path, value, ow) IN
        /\ nsets < MaxSets
        /\ nsets' = nsets + 1
        /\ before' = clickmap
        /\ clickmap' = r.node
        /\ call' = [op |-> "set", path |-> path, value |-> value, ow |-> ow, data |-> None]
        /\ ret' = [exc |-> r.exc, val |-> None]
        /\ UNCHANGED <<tapVars, detVars, misVars, auxVars>>

\* a query reads the store and leaves it as it is: the state after a query
\* depends on the store and the query alone, so queries are taken from the
\* states a set_dot_path call (or the import) left
AfterWrite == call.op \in {"none", "set"}

\* a caller runs resolve_dot_path(path, data)
ResolveDotPath ==
    \E path \in DotPaths, data \in DataRoots :
        /\ AfterWrite
        /\ before' = clickmap
        /\ call' = [op |-> "resolve", path |-> path, value |-> None, ow |-> FALSE, data |-> data]
        /\ ret' = [exc |-> "ok", val |-> resolve_dot_path(path, data)]
        /\ UNCHANGED <<clickmap, nsets>>
        /\ UNCHANGED <<tapVars, detVars, misVars, auxVars>>

\* a caller runs dot_path_exists(path, data)
DotPathExists ==
    \E path \in DotPaths, data \in DataRoots :
        /\ AfterWrite
        /\ before' = clickmap
        /\ call' = [op |-> "exists", path |-> path, value |-> None, ow |-> FALSE, data |-> data]
        /\ ret' = [exc |-> "ok", val |-> PyBool(dot_path_exists(path, data))]
        /\ UNCHANGED <<clickmap, nsets>>
        /\ UNCHANGED <<tapVars, detVars, misVars, auxVars>>

StoreNext == SetDotPath \/ ResolveDotPath \/ DotPathExists

(***************************************************************************)
(* core/tap_dispatcher.py: tap() puts a tuple on TAP_QUEUE; one daemon     *)
(* worker thread gets the tuples and injects them with adb_shell.          *)
(***************************************************************************)
MaxTaps == 3

\* tap points callers submit
Points == {<<1, 1>>, <<2, 2>>}

\* threads that call tap(): a handler and the blind gem tapper
Callers == {"handler", "blind"}

\* queue.Queue.put: append at the tail
QueuePutFront(q, it) == <<it>> \o q

QueuePut(q, it) == Append(q, it)

\* the "input tap x y" command of a tuple (3- or 4-tuple)
TapCommand(it) == <<it[1], it[2]>>

TapIdle ==
    /\ TAP_QUEUE = <<>>
    /\ submitted = <<>>
    /\ devcalls = <<>>
    /\ item = <<>>
    /\ worker = "get"

TapInit == TapIdle

\* tap(x, y, label, log_it=...) called by some thread
tap ==
    \E pt \in Points, c \in Callers, log_it \in BOOLEAN :
        LET it == <<pt[1], pt[2], c, log_it>> IN
        /\ Len(submitted) < MaxTaps
        /\ TAP_QUEUE' = QueuePut(TAP_QUEUE, it)
        /\ submitted' = Append(submitted, it)
        /\ UNCHANGED <<devcalls, item, worker>>
        /\ UNCHANGED <<storeVars, detVars, misVars, auxVars>>

\* _tap_worker: item = TAP_QUEUE.get(timeout=1) returned a tuple
WorkerGet ==
    /\ worker = "get"
    /\ TAP_QUEUE # <<>>
    /\ item' = Head(TAP_QUEUE)
    /\ TAP_QUEUE' = Tail(TAP_QUEUE)
    /\ worker' = "tap"
    /\ UNCHANGED <<submitted, devcalls>>
    /\ UNCHANGED <<storeVars, detVars, misVars, auxVars>>

\* _tap_worker: unpack, adb_shell(["input", "tap", x, y]) (which never
\* raises), then log_tap when log_it; utils.logger.log may raise OSError,
\* which nothing in the worker catches
WorkerTap ==
    /\ worker = "tap"
    /\ devcalls' = Append(devcalls, TapCommand(item))
    /\ item' = <<>>
    /\ \E logged \in BOOLEAN :
          worker' = IF (IF Len(item) = 3 THEN TRUE ELSE item[4]) /\ ~logged
                    THEN "dead" ELSE "get"
    /\ UNCHANGED <<TAP_QUEUE, submitted>>
    /\ UNCHANGED <<storeVars, detVars, misVars, auxVars>>

TapNext == tap \/ WorkerGet \/ WorkerTap

(***************************************************************************)
(* core/state_detector.py: detect_state_and_overlays(screen).              *)
(* A match key of a definition is modelled by what trying it does on the   *)
(* frame: "unresolved" (resolve_dot_path gives a falsy entry),             *)
(* "notemplate" (entry without match_template), "nomatch" (pt is None),    *)
(* "match" (pt found), "error" (the matcher raises: missing template file, *)
(* unreadable image).                                                      *)
(***************************************************************************)
MaxDefs == 3

\* names of the state definitions, by position in the YAML list (names are
\* unique and none is the reserved "UNKNOWN")
StateNames == <<"RUNNING", "GAME_OVER", "HOME_SCREEN", "MENU_ATTACK", "MENU_DEFENSE",
                "MENU_UTILITY">>

StateTypes == {"primary", "menu", "secondary"}

\* match_keys lists of a state definition on the frame
StateKeyLists == {<<"match", "error">>, <<"nomatch", "unresolved">>,
                  <<"unresolved", "notemplate", "nomatch", "match">>,
                  <<"error", "match">>}

\* the overlays section on the frame
OverlayLists == {<<>>,
                 <<[name |-> "MENU_OPEN", match_keys |-> <<"unresolved", "match">>],
                   [name |-> "AD_GEM", match_keys |-> <<"nomatch">>]>>,
                 <<[name |-> "MENU_OPEN", match_keys |-> <<"match", "error">>],
                   [name |-> "AD_GEM", match_keys |-> <<"error">>]>>,
                 <<[name |-> "MENU_OPEN", match_keys |-> <<"nomatch", "match">>],
                   [name |-> "AD_GEM", match_keys |-> <<"match", "error">>]>>}

\* the states sections: up to maxn definitions, named by position
StatesLists(maxn) ==
    UNION {{[i \in 1..n |-> [name |-> StateNames[i], type |-> f[i].type,
                              match_keys |-> f[i].match_keys]] :
              f \in [1..n -> [type : StateTypes, match_keys : StateKeyLists]]} :
           n \in 0..maxn}

\* the inner loop giving up at the first key that does not resolve
RECURSIVE TryStateKeysStopAtUnresolved(_)
TryStateKeysStopAtUnresolved(keys) ==
    IF keys = <<>> THEN "nomatch"
    ELSE IF Head(keys) = "unresolved" THEN "nomatch"
    ELSE IF Head(keys) = "error" THEN "error"
    ELSE IF Head(keys) = "notemplate" THEN TryStateKeysStopAtUnresolved(Tail(keys))
    ELSE IF Head(keys) = "match" THEN "match"
    ELSE TryStateKeysStopAtUnresolved(Tail(keys))

\* the inner loop over a state's match_keys (lines 97-110):
\* "match" (appended, break), "nomatch" (loop ran out) or "error" (raised)
RECURSIVE TryStateKeys(_)
TryStateKeys(keys) ==
    IF keys = <<>> THEN "nomatch"
    ELSE IF Head(keys) = "unresolved" THEN TryStateKeys(Tail(keys))
    ELSE IF Head(keys) = "error" THEN "error"
    ELSE IF Head(keys) = "notemplate" THEN TryStateKeys(Tail(keys))
    ELSE IF Head(keys) = "match" THEN "match"
    ELSE TryStateKeys(Tail(keys))

\* the loop over the states (lines 94-110): [exc, matched_states]
RECURSIVE MatchStates(_, _)
MatchStates(states, matched_states) ==
    IF states = <<>> THEN [exc |-> "ok", matched_states |-> matched_states]
    ELSE LET r == TryStateKeys(Head(states).match_keys) IN
         IF r = "error" THEN [exc |-> "MatchError", matched_states |-> matched_states]
         ELSE MatchStates(Tail(states),
                          IF r = "match" THEN Append(matched_states, Head(states).name)
                          ELSE matched_states)

\* next(s for s in states if s["name"] == name)["type"] (lines 116-119)
RECURSIVE TypeOf(_, _)
TypeOf(states, name) ==
    IF states = <<>> THEN "none"
    ELSE IF Head(states).name = name THEN Head(states).type
    ELSE TypeOf(Tail(states), name)

\* one iteration of the classification loop (lines 114-128) on the
\* accumulator [exc, state, secondary_states, menu_candidates_in_order]
ClassifyNameKeepFirst(acc, name, state_type) ==
    IF state_type = "none" THEN acc
    ELSE IF state_type = "primary"
    THEN IF acc.state # "UNKNOWN" THEN acc ELSE [acc EXCEPT !.state = name]
    ELSE IF state_type = "menu"
    THEN [acc EXCEPT !.menu_candidates_in_order = Append(@, name)]
    ELSE [acc EXCEPT !.secondary_states = Append(@, name)]

\* the classification that also files a primary under secondary_states
ClassifyNamePrimaryListed(acc, name, state_type) ==
    IF state_type = "none" THEN acc
    ELSE IF state_type = "primary"
    THEN IF acc.state # "UNKNOWN"
         THEN [acc EXCEPT !.exc = "RuntimeError"]
         ELSE [acc EXCEPT !.state = name, !.secondary_states = Append(@, name)]
    ELSE IF state_type = "menu"
    THEN [acc EXCEPT !.menu_candidates_in_order = Append(@, name)]
    ELSE [acc EXCEPT !.secondary_states = Append(@, name)]

ClassifyName(acc, name, state_type) ==
    IF state_type = "none" THEN acc
    ELSE IF state_type = "primary"
    THEN IF acc.state # "UNKNOWN"
         THEN [acc EXCEPT !.exc = "RuntimeError"]
         ELSE [acc EXCEPT !.state = name]
    ELSE IF state_type = "menu"
    THEN [acc EXCEPT !.menu_candidates_in_order = Append(@, name)]
    ELSE [acc EXCEPT !.secondary_states = Append(@, name)]

RECURSIVE ClassifyAll(_, _, _)
ClassifyAll(states, matched_states, acc) ==
    IF matched_states = <<>> \/ acc.exc # "ok" THEN acc
    ELSE ClassifyAll(states, Tail(matched_states),
                     ClassifyName(acc, Head(matched_states),
                                  TypeOf(states, Head(matched_states))))

\* result["menu"] (lines 130-132)
ChooseMenuLast(menu_candidates_in_order) ==
    IF menu_candidates_in_order = <<>> THEN "None"
    ELSE menu_candidates_in_order[Len(menu_candidates_in_order)]

ChooseMenu(menu_candidates_in_order) ==
    IF menu_candidates_in_order = <<>> THEN "None"
    ELSE menu_candidates_in_order[1]

\* the inner loop over an overlay's match_keys (lines 139-149)
RECURSIVE TryOverlayKeys(_)
TryOverlayKeys(keys) ==
    IF keys = <<>> THEN "nomatch"
    ELSE IF Head(keys) = "unresolved" THEN TryOverlayKeys(Tail(keys))
    ELSE IF Head(keys) = "error" THEN "error"
    ELSE IF Head(keys) = "match" THEN "match"
    ELSE TryOverlayKeys(Tail(keys))

\* the loop over the overlays leaving at the first overlay reported
RECURSIVE MatchOverlaysFirstOnly(_, _)
MatchOverlaysFirstOnly(ovs, found) ==
    IF ovs = <<>> THEN [exc |-> "ok", overlays |-> found]
    ELSE LET r == TryOverlayKeys(Head(ovs).match_keys) IN
         IF r = "error" THEN [exc |-> "MatchError", overlays |-> found]
         ELSE IF r = "match" THEN [exc |-> "ok", overlays |-> Append(found, Head(ovs).name)]
         ELSE MatchOverlaysFirstOnly(Tail(ovs), found)

\* the loop over the overlays (lines 137-149): [exc, overlays]
RECURSIVE MatchOverlays(_, _)
MatchOverlays(ovs, found) ==
    IF ovs = <<>> THEN [exc |-> "ok", overlays |-> found]
    ELSE LET r == TryOverlayKeys(Head(ovs).match_keys) IN
         IF r = "error" THEN [exc |-> "MatchError", overlays |-> found]
         ELSE MatchOverlays(Tail(ovs),
                            IF r = "match" THEN Append(found, Head(ovs).name) ELSE found)

NoResult == [state |-> "UNKNOWN", secondary_states |-> <<>>, overlays |-> <<>>,
             menu |-> "None"]

\* detect_state_and_overlays: [exc, result]; result is meaningful only
\* when exc = "ok" (otherwise the call raised and returned nothing)
detect_state_and_overlays(defs) ==
    LET m == MatchStates(defs.states, <<>>) IN
    IF m.exc # "ok" THEN [exc |-> m.exc, result |-> NoResult]
    ELSE LET c == ClassifyAll(defs.states, m.matched_states,
                              [exc |-> "ok", state |-> "UNKNOWN",
                               secondary_states |-> <<>>,
                               menu_candidates_in_order |-> <<>>]) IN
         IF c.exc # "ok" THEN [exc |-> c.exc, result |-> NoResult]
         ELSE LET o == MatchOverlays(defs.overlays, <<>>) IN
              IF o.exc # "ok" THEN [exc |-> o.exc, result |-> NoResult]
              ELSE [exc |-> "ok",
                    result |-> [state |-> c.state,
                                secondary_states |-> c.secondary_states,
                                overlays |-> o.overlays,
                                menu |-> ChooseMenu(c.menu_candidates_in_order)]]

NotDetected == [called |-> FALSE, exc |-> "ok", result |-> NoResult,
                matched_states |-> <<>>]

DetIdle ==
    /\ state_definitions = [states |-> <<>>, overlays |-> <<>>]
    /\ detected = NotDetected

DetInit ==
    /\ state_definitions \in [states : StatesLists(MaxDefs), overlays : OverlayLists]
    /\ detected = NotDetected

\* a caller runs detect_state_and_overlays(screen) on the frame; matched_states
\* is the function's local list as the loop over the states left it
DetectStateAndOverlays ==
    /\ ~detected.called
    /\ LET r == detect_state_and_overlays(state_definitions) IN
       detected' = [called |-> TRUE, exc |-> r.exc, result |-> r.result,
                    matched_states |->
                        MatchStates(state_definitions.states, <<>>).matched_states]
    /\ UNCHANGED state_definitions
    /\ UNCHANGED <<storeVars, tapVars, misVars, auxVars>>

DetNext == DetectStateAndOverlays

(***************************************************************************)
(* handlers/mission_demon_mode.py: run_demon_mode_strategy, one bounded    *)
(* round.  Time is the monotonic clock in whole ticks counted from t0; a   *)
(* screen capture takes 0 or 1 tick, time.sleep(d) takes d.                *)
(***************************************************************************)
MaxRetries == 1

\* None, for max_runs and max_duration_s
NoLimit == -1

CaptureTimes == {0, 1}

\* the on_event argument: None, a callback that returns, a callback that
\* raises an ordinary exception whenever it is called
Callbacks == {"None", "returns", "raises"}

\* MissionConfig values (with the dry_run and on_event arguments) tried
MissionConfigs ==
    [poll_running_interval_s : {1}, poll_buttons_interval_s : {1},
     post_demon_wait_s : {0, 2}, timeout_running_s : {0, 2},
     timeout_demon_s : {0, 2}, overall_deadline_s : {1, 9},
     verify_tap : BOOLEAN, max_tap_retries : 0..MaxRetries,
     dry_run : BOOLEAN, on_event : Callbacks]

\* the frames a capture may show the classifier: RUNNING and GAME_OVER are
\* primary states, MENU_OPEN an overlay; key outcomes as in the classifier
MissionFrame(r, g, o) ==
    [states |-> <<[name |-> "RUNNING", type |-> "primary", match_keys |-> <<r>>],
                  [name |-> "GAME_OVER", type |-> "primary", match_keys |-> <<g>>]>>,
     overlays |-> <<[name |-> "MENU_OPEN", match_keys |-> <<o>>]>>]

MissionFrames ==
    {MissionFrame("match", "nomatch", "nomatch"), MissionFrame("match", "nomatch", "match"),
     MissionFrame("nomatch", "match", "nomatch"), MissionFrame("nomatch", "nomatch", "match"),
     MissionFrame("match", "match", "nomatch"), MissionFrame("error", "nomatch", "nomatch")}

\* outcomes of tap_label_now: True, False (label not matched), or an
\* exception other than the three it catches
LabelTapOutcomes == {"tapped", "notfound", "raise"}

IdleRound ==
    [pc |-> "idle", now |-> 0, deadline |-> 0, end_by |-> 0, p0 |-> 0,
     attempts |-> 0, remaining |-> 0, phases |-> NoKids, errors |-> <<>>,
     outcome |-> "none", taps |-> <<>>, events |-> <<>>, cb_errors |-> 0]

NoObs ==
    [saw_running |-> FALSE, interrupted |-> FALSE, demon_detected |-> FALSE,
     demon_gone |-> FALSE, late_poll |-> FALSE, captures |-> 0]

\* emit with the callback's exception left to propagate
emit_uncaught(cb, r, event, name) ==
    IF cb = "raises"
    THEN [r EXCEPT !.events = Append(@, <<event, name>>), !.pc = "raised"]
    ELSE [r EXCEPT !.events = Append(@, <<event, name>>)]

\* emit(event, data), lines 122-128 and 344-349, with on_event = cb:
\* `if on_event: try: on_event(event, data) except Exception: log(...)`.
\* events lists the calls of emit made by the frame r, cb_errors counts the
\* exceptions of the callback that the handler caught.
emit_with(cb, r, event, name) ==
    [r EXCEPT !.events = Append(@, <<event, name>>),
              !.cb_errors = IF cb = "raises" THEN @ + 1 ELSE @]

emit(r, event, name) == emit_with(cfg.on_event, r, event, name)

\* a finally clause that emits PHASE_END without recording the duration
EndPhaseEventOnly(r, name) == emit(r, "PHASE_END", name)

\* _phase's finally clause: phases[name] = _now() - p0, then PHASE_END
EndPhase(r, name) == emit([r EXCEPT !.phases = Put(@, name, r.now - r.p0)], "PHASE_END", name)

\* return MissionResult(outcome=...)
ReturnResult(r, outcome) == [r EXCEPT !.pc = "done", !.outcome = outcome]

\* an exception leaves run_demon_mode_strategy from inside phase `name`
RaiseFrom(r, name) == [EndPhase(r, name) EXCEPT !.pc = "raised"]

\* result.get("state") == "RUNNING"
IsRunningLoose(result) == result.state \in {"RUNNING", "UNKNOWN"}

IsRunning(result) == result.state = "RUNNING"

\* the loop conditions `_now() < end_by and _before_deadline()`
InTime(r) == r.now < r.end_by /\ r.now < r.deadline

\* attempts > cfg.max_tap_retries
RetriesExhaustedEarly(attempts) == attempts >= cfg.max_tap_retries

RetriesExhausted(attempts) == attempts > cfg.max_tap_retries

\* lines 117-120 and the start of _phase("WAIT_RUNNING", ...)
BeginRound ==
    emit([IdleRound EXCEPT !.pc = "wait_running", !.deadline = cfg.overall_deadline_s,
                           !.end_by = cfg.timeout_running_s],
         "PHASE_START", "WAIT_RUNNING")

\* WAIT_RUNNING followed at once by the timed wait
BeginWaitDemonSkipped(r) ==
    emit([r EXCEPT !.pc = "post_demon", !.p0 = r.now,
                   !.remaining = IF cfg.dry_run THEN 0 ELSE cfg.post_demon_wait_s],
         "PHASE_START", "POST_DEMON_WAIT")

\* the start of _phase("WAIT_TAP_DEMON", ...)
BeginWaitDemon(r) ==
    emit([r EXCEPT !.pc = "wait_demon", !.p0 = r.now, !.end_by = r.now + cfg.timeout_demon_s],
         "PHASE_START", "WAIT_TAP_DEMON")

\* the start of _phase("POST_DEMON_WAIT", ...)
BeginPostDemon(r) ==
    emit([r EXCEPT !.pc = "post_demon", !.p0 = r.now,
                   !.remaining = IF cfg.dry_run THEN 0 ELSE cfg.post_demon_wait_s],
         "PHASE_START", "POST_DEMON_WAIT")

\* the phase a position of the round is in
PhaseOf(pc) ==
    IF pc = "wait_running" THEN "WAIT_RUNNING"
    ELSE IF pc \in {"wait_demon", "tap_verify"} THEN "WAIT_TAP_DEMON"
    ELSE IF pc = "post_demon" THEN "POST_DEMON_WAIT"
    ELSE "END_GAME_SEQUENCE"

RunningPcs == {"wait_running", "wait_demon", "tap_verify", "post_demon",
               "end_menu", "end_round", "end_yes", "end_retry"}

\* run_demon_mode_strategy(cfg) called directly (run_demon_mode, a script)
StartRound ==
    /\ camp.pc = "off"
    /\ rnd.pc = "idle"
    /\ rnd' = BeginRound
    /\ UNCHANGED <<cfg, obs, ccfg, camp, stopfile_exists>>
    /\ UNCHANGED <<storeVars, tapVars, detVars, auxVars>>

\* _wait_for_state_running: the loop condition fails
WaitRunningTimeout ==
    /\ rnd.pc = "wait_running"
    /\ ~InTime(rnd)
    /\ rnd' = ReturnResult(EndPhase(rnd, "WAIT_RUNNING"), "TIMEOUT_WAITING_FOR_RUNNING")
    /\ UNCHANGED <<cfg, obs, ccfg, camp, stopfile_exists>>
    /\ UNCHANGED <<storeVars, tapVars, detVars, auxVars>>

\* _wait_for_state_running: one iteration of the loop
WaitRunningPoll ==
    /\ rnd.pc = "wait_running"
    /\ InTime(rnd)
    /\ IF cfg.dry_run
       THEN /\ rnd' = BeginWaitDemon(EndPhase(rnd, "WAIT_RUNNING"))
            /\ obs' = obs
       ELSE \E dt \in CaptureTimes, frame \in MissionFrames :
              LET r1 == [rnd EXCEPT !.now = @ + dt]
                  d  == detect_state_and_overlays(frame)
                  o1 == [obs EXCEPT !.captures = @ + 1,
                                    !.late_poll = @ \/ rnd.now >= cfg.timeout_running_s]
              IN  IF d.exc # "ok"
                  THEN /\ rnd' = RaiseFrom(r1, "WAIT_RUNNING")
                       /\ obs' = o1
                  ELSE IF IsRunning(d.result)
                  THEN /\ rnd' = BeginWaitDemon(EndPhase(r1, "WAIT_RUNNING"))
                       /\ obs' = [o1 EXCEPT !.saw_running = d.result.state = "RUNNING"]
                  ELSE /\ rnd' = [r1 EXCEPT !.now = @ + cfg.poll_running_interval_s]
                       /\ obs' = o1
    /\ UNCHANGED <<cfg, ccfg, camp, stopfile_exists>>
    /\ UNCHANGED <<storeVars, tapVars, detVars, auxVars>>

\* _wait_for_and_tap: the loop condition fails
WaitDemonTimeout ==
    /\ rnd.pc = "wait_demon"
    /\ ~InTime(rnd)
    /\ rnd' = ReturnResult(EndPhase(rnd, "WAIT_TAP_DEMON"), "TIMEOUT_WAITING_FOR_DEMON")
    /\ UNCHANGED <<cfg, obs, ccfg, camp, stopfile_exists>>
    /\ UNCHANGED <<storeVars, tapVars, detVars, auxVars>>

\* _wait_for_and_tap: one iteration of the loop, up to the call of
\* _tap_floating_button_with_verify when the button is detected
WaitDemonPoll ==
    /\ rnd.pc = "wait_demon"
    /\ InTime(rnd)
    /\ IF cfg.dry_run
       THEN /\ rnd' = BeginPostDemon(EndPhase(rnd, "WAIT_TAP_DEMON"))
            /\ obs' = obs
       ELSE \E dt \in CaptureTimes, visible \in BOOLEAN :
              LET r1 == [rnd EXCEPT !.now = @ + dt]
                  o1 == [obs EXCEPT !.captures = @ + 1]
              IN  IF visible
                  THEN /\ rnd' = [r1 EXCEPT !.pc = "tap_verify", !.attempts = 0]
                       /\ obs' = [o1 EXCEPT !.demon_detected = TRUE]
                  ELSE /\ rnd' = [r1 EXCEPT !.now = @ + cfg.poll_buttons_interval_s]
                       /\ obs' = o1
    /\ UNCHANGED <<cfg, ccfg, camp, stopfile_exists>>
    /\ UNCHANGED <<storeVars, tapVars, detVars, auxVars>>

\* tap_floating_button / tap_now / tap_label_now: an `input tap` sent to
\* the device for the named target
DeviceTap(r, name) == [r EXCEPT !.taps = Append(@, name)]

\* _tap_floating_button_with_verify returned True: WAIT_TAP_DEMON ends with
\* no outcome and POST_DEMON_WAIT starts
TapVerified(r) == BeginPostDemon(EndPhase(r, "WAIT_TAP_DEMON"))

\* _tap_floating_button_with_verify returned False (lines 200-202)
TapVerifyFailed(r) ==
    ReturnResult(EndPhase([r EXCEPT !.errors = Append(@, "Verify failed for floating_buttons.demon_mode")],
                          "WAIT_TAP_DEMON"),
                 "UI_FLOW_FAILURE")

\* _tap_floating_button_with_verify: one iteration of `while True`
TapVerify ==
    /\ rnd.pc = "tap_verify"
    /\ \E dt1 \in CaptureTimes, vis1 \in BOOLEAN, dt2 \in CaptureTimes, vis2 \in BOOLEAN :
         LET attempts == rnd.attempts + 1
             r0 == [rnd EXCEPT !.attempts = attempts]
             \* lines 167-174
             r1 == IF cfg.dry_run THEN r0
                   ELSE IF vis1 THEN DeviceTap([r0 EXCEPT !.now = @ + dt1], "floating_buttons.demon_mode")
                   ELSE [r0 EXCEPT !.now = @ + dt1]
             o1 == IF cfg.dry_run THEN obs
                   ELSE [obs EXCEPT !.captures = @ + 1, !.demon_gone = @ \/ ~vis1]
             \* lines 180-182
             r2 == [r1 EXCEPT !.now = @ + dt2]
             o2 == [o1 EXCEPT !.captures = @ + 1, !.demon_gone = @ \/ ~vis2]
         IN  IF ~cfg.dry_run /\ ~vis1 /\ ~cfg.verify_tap
             THEN rnd' = TapVerified(r1) /\ obs' = o1
             ELSE IF ~cfg.verify_tap \/ cfg.dry_run
             THEN rnd' = TapVerified(r1) /\ obs' = o1
             ELSE IF ~vis2
             THEN rnd' = TapVerified(r2) /\ obs' = o2
             ELSE IF RetriesExhausted(attempts)
             THEN rnd' = TapVerifyFailed(r2) /\ obs' = o2
             ELSE /\ rnd' = [r2 EXCEPT !.now = @ + cfg.poll_buttons_interval_s]
                  /\ obs' = o2
    /\ UNCHANGED <<cfg, ccfg, camp, stopfile_exists>>
    /\ UNCHANGED <<storeVars, tapVars, detVars, auxVars>>

\* _post_demon: one pass of the countdown loop, time.sleep(1)
PostDemonTick ==
    /\ rnd.pc = "post_demon"
    /\ rnd.remaining > 0
    /\ rnd' = [rnd EXCEPT !.now = @ + 1, !.remaining = @ - 1]
    /\ UNCHANGED <<cfg, obs, ccfg, camp, stopfile_exists>>
    /\ UNCHANGED <<storeVars, tapVars, detVars, auxVars>>

\* _end_game without its `if dry_run: return None`
PostDemonDoneLive ==
    /\ rnd.pc = "post_demon"
    /\ rnd.remaining = 0
    /\ rnd' = [emit([EndPhase(rnd, "POST_DEMON_WAIT") EXCEPT !.p0 = rnd.now],
                    "PHASE_START", "END_GAME_SEQUENCE")
                 EXCEPT !.pc = "end_menu"]
    /\ UNCHANGED <<cfg, obs, ccfg, camp, stopfile_exists>>
    /\ UNCHANGED <<storeVars, tapVars, detVars, auxVars>>

\* _post_demon returns; _phase("END_GAME_SEQUENCE", _end_game) starts, and
\* in a dry run ends at once with SUCCESS
PostDemonDone ==
    /\ rnd.pc = "post_demon"
    /\ rnd.remaining = 0
    /\ LET r1 == emit([EndPhase(rnd, "POST_DEMON_WAIT") EXCEPT !.p0 = rnd.now],
                       "PHASE_START", "END_GAME_SEQUENCE")
       IN  rnd' = IF cfg.dry_run
                  THEN ReturnResult(EndPhase(r1, "END_GAME_SEQUENCE"), "SUCCESS")
                  ELSE [r1 EXCEPT !.pc = "end_menu"]
    /\ UNCHANGED <<cfg, obs, ccfg, camp, stopfile_exists>>
    /\ UNCHANGED <<storeVars, tapVars, detVars, auxVars>>

\* x in lst, for a Python list
InList(x, lst) == \E i \in 1..Len(lst) : lst[i] = x

\* _end_game lines 251-256: open the menu unless MENU_OPEN is detected
EndGameMenu ==
    /\ rnd.pc = "end_menu"
    /\ \E dt \in CaptureTimes, frame \in MissionFrames, pos \in BOOLEAN :
         LET r1 == [rnd EXCEPT !.now = @ + dt]
             d  == detect_state_and_overlays(frame)
         IN  /\ obs' = [obs EXCEPT !.captures = @ + 1]
             /\ rnd' = IF d.exc # "ok" THEN RaiseFrom(r1, "END_GAME_SEQUENCE")
                       ELSE IF InList("MENU_OPEN", d.result.overlays)
                       THEN [r1 EXCEPT !.pc = "end_round"]
                       ELSE [(IF pos THEN DeviceTap(r1, "overlays.toggle_menu") ELSE r1)
                               EXCEPT !.pc = "end_round", !.now = @ + 1]
    /\ UNCHANGED <<cfg, ccfg, camp, stopfile_exists>>
    /\ UNCHANGED <<storeVars, tapVars, detVars, auxVars>>

\* one guarded step of _end_game: try: tap_label_now(label) except
\* Exception: errors.append(msg)
TryLabelTap(r, label, msg, out) ==
    IF out = "tapped" THEN DeviceTap(r, label)
    ELSE IF out = "raise" THEN [r EXCEPT !.errors = Append(@, msg)]
    ELSE r

\* _end_game lines 258-264
EndGameEndRound ==
    /\ rnd.pc = "end_round"
    /\ \E out \in LabelTapOutcomes :
         rnd' = [TryLabelTap(rnd, "overlays.end_round", "Failed to tap End Round", out)
                   EXCEPT !.pc = "end_yes", !.now = @ + 1]
    /\ UNCHANGED <<cfg, obs, ccfg, camp, stopfile_exists>>
    /\ UNCHANGED <<storeVars, tapVars, detVars, auxVars>>

\* _end_game lines 266-273
EndGameYes ==
    /\ rnd.pc = "end_yes"
    /\ \E dt \in CaptureTimes, out \in LabelTapOutcomes :
         /\ rnd' = [TryLabelTap([rnd EXCEPT !.now = @ + dt], "buttons.yes:end_round",
                                "Confirm Yes not visible", out)
                      EXCEPT !.pc = "end_retry", !.now = @ + 1]
         /\ obs' = [obs EXCEPT !.captures = @ + 1]
    /\ UNCHANGED <<cfg, ccfg, camp, stopfile_exists>>
    /\ UNCHANGED <<storeVars, tapVars, detVars, auxVars>>

\* _end_game lines 275-283, and the SUCCESS return of lines 285-294
EndGameRetry ==
    /\ rnd.pc = "end_retry"
    /\ \E dt \in CaptureTimes, out \in LabelTapOutcomes :
         /\ rnd' = ReturnResult(
                      EndPhase(TryLabelTap([rnd EXCEPT !.now = @ + dt], "buttons.retry:game_over",
                                           "Retry button not visible", out),
                               "END_GAME_SEQUENCE"),
                      "SUCCESS")
         /\ obs' = [obs EXCEPT !.captures = @ + 1]
    /\ UNCHANGED <<cfg, ccfg, camp, stopfile_exists>>
    /\ UNCHANGED <<storeVars, tapVars, detVars, auxVars>>

\* a KeyboardInterrupt swallowed where it is raised, as `except Exception`
\* would swallow an ordinary exception
OnKeyboardInterruptSwallowed(r) == r

\* KeyboardInterrupt is not an Exception: neither emit's handler nor the
\* guarded steps of _end_game catch it; _phase's finally records the phase
\* and the handler of lines 296-304 returns ABORTED_BY_USER
OnKeyboardInterrupt(r) == ReturnResult(EndPhase(r, PhaseOf(r.pc)), "ABORTED_BY_USER")

\* KeyboardInterrupt raised inside a phase: in a poll, a sleep, a tap, or
\* the on_event callback of PHASE_START
Interrupt ==
    /\ rnd.pc \in RunningPcs
    /\ rnd' = OnKeyboardInterrupt(rnd)
    /\ obs' = [obs EXCEPT !.interrupted = TRUE]
    /\ UNCHANGED <<cfg, ccfg, camp, stopfile_exists>>
    /\ UNCHANGED <<storeVars, tapVars, detVars, auxVars>>

RoundNext ==
    \/ WaitRunningTimeout
    \/ WaitRunningPoll
    \/ WaitDemonTimeout
    \/ WaitDemonPoll
    \/ TapVerify
    \/ PostDemonTick
    \/ PostDemonDone
    \/ EndGameMenu
    \/ EndGameEndRound
    \/ EndGameYes
    \/ EndGameRetry
    \/ Interrupt

\* no campaign: run_demon_mode_strategy is called on its own
NoCampaignConfig ==
    [max_runs |-> NoLimit, max_duration_s |-> NoLimit, sleep_between_runs_s |-> 0,
     stopfile |-> FALSE, progress_detector |-> FALSE, until |-> FALSE]

NoCampaign ==
    [pc |-> "off", elapsed |-> 0, runs |-> 0, successes |-> 0, to_run |-> 0,
     to_demon |-> 0, ui_fail |-> 0, aborted |-> FALSE, last_result |-> "None",
     started |-> 0, all_timed_out |-> TRUE, stop_reason |-> "none",
     stop_at_start |-> FALSE, progress |-> 0, probe |-> "none", met |-> "none",
     events |-> <<>>, cb_errors |-> 0]

(***************************************************************************)
(* handlers/mission_demon_mode.py: run_demon_mode_campaign.  The campaign  *)
(* keeps of each MissionResult its outcome; elapsed is time.monotonic() -  *)
(* t0 counted up to max_duration_s, which is all the loop asks of it.      *)
(***************************************************************************)
MaxRounds == 3

\* MissionConfig values (with dry_run and on_event) a campaign is run with: a live round
\* that can succeed, one that cannot get past WAIT_TAP_DEMON in time, and a
\* dry run
LiveConfig ==
    [poll_running_interval_s |-> 1, poll_buttons_interval_s |-> 1,
     post_demon_wait_s |-> 2, timeout_running_s |-> 2, timeout_demon_s |-> 2,
     overall_deadline_s |-> 9, verify_tap |-> TRUE, max_tap_retries |-> 0,
     dry_run |-> FALSE, on_event |-> "raises"]

TimingOutConfig == [LiveConfig EXCEPT !.timeout_demon_s = 0, !.on_event = "None"]

DryConfig == [LiveConfig EXCEPT !.dry_run = TRUE, !.on_event = "returns"]

CampaignArgs(n, d, s, f, p) ==
    [max_runs |-> n, max_duration_s |-> d, sleep_between_runs_s |-> s,
     stopfile |-> f, progress_detector |-> p, until |-> p]

\* the campaigns tried: <<config with dry_run, the other arguments>>
CampaignInputs ==
    ({TimingOutConfig} \X
        {CampaignArgs(0, NoLimit, 0, FALSE, FALSE),
         CampaignArgs(1, NoLimit, 0, TRUE, FALSE),
         CampaignArgs(2, NoLimit, 1, FALSE, FALSE),
         CampaignArgs(2, NoLimit, 1, TRUE, FALSE),
         CampaignArgs(2, 3, 0, TRUE, TRUE),
         CampaignArgs(NoLimit, 3, 1, FALSE, FALSE),
         CampaignArgs(NoLimit, NoLimit, 0, TRUE, TRUE),
         [CampaignArgs(2, NoLimit, 0, FALSE, TRUE) EXCEPT !.until = FALSE]})
    \cup ({LiveConfig} \X
        {CampaignArgs(1, NoLimit, 0, TRUE, FALSE),
         CampaignArgs(2, NoLimit, 1, FALSE, FALSE)})
    \cup ({DryConfig} \X
        {CampaignArgs(2, NoLimit, 1, FALSE, FALSE),
         CampaignArgs(NoLimit, NoLimit, 0, TRUE, TRUE)})

\* time.monotonic() - t0 after d more ticks
Elapse(e, d) ==
    IF ccfg.max_duration_s = NoLimit THEN 0
    ELSE IF e + d >= ccfg.max_duration_s THEN ccfg.max_duration_s ELSE e + d

\* max_duration_s is not None and (time.monotonic() - t0) >= max_duration_s
DurationReached == ccfg.max_duration_s # NoLimit /\ camp.elapsed >= ccfg.max_duration_s

\* max_runs is not None and runs >= max_runs
RunsReachedLate == ccfg.max_runs # NoLimit /\ camp.runs > ccfg.max_runs

RunsReached == ccfg.max_runs # NoLimit /\ camp.runs >= ccfg.max_runs

\* stopfile and os.path.exists(stopfile)
StopfilePresentNever == FALSE

StopfilePresent == ccfg.stopfile /\ stopfile_exists

\* break, then the return of lines 405-415
CampaignReturn(c, reason) == [c EXCEPT !.pc = "returned", !.stop_reason = reason]

\* the aggregation of lines 370-384
Aggregate(c, oc) ==
    [c EXCEPT !.runs = @ + 1,
              !.last_result = oc,
              !.all_timed_out = @ /\ oc \in {"TIMEOUT_WAITING_FOR_RUNNING",
                                                "TIMEOUT_WAITING_FOR_DEMON"},
              !.successes = IF oc = "SUCCESS" THEN @ + 1 ELSE @,
              !.to_run = IF oc = "TIMEOUT_WAITING_FOR_RUNNING" THEN @ + 1 ELSE @,
              !.to_demon = IF oc = "TIMEOUT_WAITING_FOR_DEMON" THEN @ + 1 ELSE @,
              !.ui_fail = IF oc = "UI_FLOW_FAILURE" THEN @ + 1 ELSE @,
              !.aborted = IF oc = "ABORTED_BY_USER" THEN TRUE ELSE @]

\* the top of the loop, lines 353-368: the three checks, then the call of
\* run_demon_mode_strategy
CampaignCheck ==
    /\ camp.pc = "check"
    /\ IF DurationReached
       THEN camp' = CampaignReturn(camp, "max_duration") /\ UNCHANGED <<rnd, obs>>
       ELSE IF RunsReached
       THEN camp' = CampaignReturn(camp, "max_runs") /\ UNCHANGED <<rnd, obs>>
       ELSE IF StopfilePresent
       THEN camp' = CampaignReturn(camp, "stopfile") /\ UNCHANGED <<rnd, obs>>
       ELSE /\ camp.started < MaxRounds
            /\ camp' = emit([camp EXCEPT !.pc = "round", !.started = @ + 1],
                             "ROUND_START", "")
            /\ rnd' = BeginRound
            /\ obs' = NoObs
    /\ UNCHANGED <<cfg, ccfg, stopfile_exists>>
    /\ UNCHANGED <<storeVars, tapVars, detVars, auxVars>>

\* the progress block without its try/except: an error of the capture, the
\* probe or the predicate leaves the campaign
ProgressBlockUncaught(c, dt, probe, met) ==
    LET c2 == [c EXCEPT !.elapsed = Elapse(@, IF cfg.dry_run THEN 0 ELSE dt),
                        !.probe = probe]
        c3 == emit([c2 EXCEPT !.progress = c.runs], "PROGRESS", "")
    IN  IF probe # "returned" THEN [c2 EXCEPT !.pc = "raised"]
        ELSE IF ~ccfg.until THEN [c3 EXCEPT !.pc = "pause"]
        ELSE IF met = "True" THEN CampaignReturn([c3 EXCEPT !.met = met], "until")
        ELSE IF met = "raised" THEN [c3 EXCEPT !.pc = "raised", !.met = met]
        ELSE [c3 EXCEPT !.pc = "pause", !.met = met]

\* the progress block, lines 386-396, entered with a progress_detector.
\* probe is what became of `progress_detector(screen)`: the capture before
\* it raised, it raised, or it returned a snapshot; met is what until() did
\* with the snapshot.  camp.progress names the snapshot by the round it was
\* taken after (0 is None).
ProgressBlock(c, dt, probe, met) ==
    LET c2 == [c EXCEPT !.elapsed = Elapse(@, IF cfg.dry_run THEN 0 ELSE dt),
                        !.probe = probe]
        c3 == emit([c2 EXCEPT !.progress = c.runs], "PROGRESS", "")
    IN  IF probe # "returned" THEN [c2 EXCEPT !.pc = "pause"]
        ELSE IF ~ccfg.until THEN [c3 EXCEPT !.pc = "pause"]
        ELSE IF met = "True" THEN CampaignReturn([c3 EXCEPT !.met = met], "until")
        ELSE [c3 EXCEPT !.pc = "pause", !.met = met]

\* run_demon_mode_strategy returned: lines 369-396
CampaignRoundEnd ==
    /\ camp.pc = "round"
    /\ rnd.pc = "done"
    /\ \E dt \in CaptureTimes, probe \in {"capture_raised", "raised", "returned"},
          met \in {"True", "False", "raised"} :
         LET c1 == [Aggregate(emit(camp, "ROUND_END", ""), rnd.outcome)
                      EXCEPT !.elapsed = Elapse(@, rnd.now), !.probe = "none", !.met = "none"]
         IN  /\ cfg.dry_run => probe # "capture_raised"
             /\ camp' = IF rnd.outcome = "ABORTED_BY_USER" THEN CampaignReturn(c1, "aborted")
                         ELSE IF ~ccfg.progress_detector THEN [c1 EXCEPT !.pc = "pause"]
                         ELSE ProgressBlock(c1, dt, probe, met)
    /\ rnd' = IdleRound
    /\ obs' = NoObs
    /\ UNCHANGED <<cfg, ccfg, stopfile_exists>>
    /\ UNCHANGED <<storeVars, tapVars, detVars, auxVars>>

\* an exception other than KeyboardInterrupt left run_demon_mode_strategy:
\* nothing in run_demon_mode_campaign catches it
CampaignRoundRaised ==
    /\ camp.pc = "round"
    /\ rnd.pc = "raised"
    /\ camp' = [camp EXCEPT !.pc = "raised"]
    /\ rnd' = IdleRound
    /\ obs' = NoObs
    /\ UNCHANGED <<cfg, ccfg, stopfile_exists>>
    /\ UNCHANGED <<storeVars, tapVars, detVars, auxVars>>

\* the pause without the re-check of the stop file
CampaignPauseNoCheck ==
    /\ camp.pc = "pause"
    /\ camp' = [camp EXCEPT !.elapsed = Elapse(@, ccfg.sleep_between_runs_s), !.pc = "check"]
    /\ UNCHANGED <<cfg, rnd, obs, ccfg, stopfile_exists>>
    /\ UNCHANGED <<storeVars, tapVars, detVars, auxVars>>

\* the inter-round pause and the second stopfile check, lines 399-403
CampaignPause ==
    /\ camp.pc = "pause"
    /\ LET c1 == [camp EXCEPT !.elapsed = Elapse(@, ccfg.sleep_between_runs_s)]
       IN  camp' = IF StopfilePresent THEN CampaignReturn(c1, "stopfile")
                   ELSE [c1 EXCEPT !.pc = "check"]
    /\ UNCHANGED <<cfg, rnd, obs, ccfg, stopfile_exists>>
    /\ UNCHANGED <<storeVars, tapVars, detVars, auxVars>>

\* KeyboardInterrupt in the campaign's own code, lines 417-429
CampaignInterrupt ==
    /\ camp.pc \in {"check", "pause"}
    /\ camp' = [CampaignReturn(camp, "interrupt") EXCEPT !.aborted = TRUE]
    /\ UNCHANGED <<cfg, rnd, obs, ccfg, stopfile_exists>>
    /\ UNCHANGED <<storeVars, tapVars, detVars, auxVars>>

\* KeyboardInterrupt while on_event handles ROUND_END (line 369): last_result
\* has been assigned (368), runs is not yet counted (370), and the handler of
\* lines 417-429 returns what the locals hold.  A callback that raises does so
\* at once; one that returns takes the time in which the interrupt arrives.
CampaignInterruptRoundEnd ==
    /\ camp.pc = "round"
    /\ rnd.pc = "done"
    /\ cfg.on_event = "returns"
    /\ camp' = [CampaignReturn(emit(camp, "ROUND_END", ""), "interrupt")
                  EXCEPT !.aborted = TRUE, !.last_result = rnd.outcome,
                         !.probe = "none", !.met = "none"]
    /\ rnd' = IdleRound
    /\ obs' = NoObs
    /\ UNCHANGED <<cfg, ccfg, stopfile_exists>>
    /\ UNCHANGED <<storeVars, tapVars, detVars, auxVars>>

\* the environment: somebody creates the stop file
TouchStopfile ==
    /\ camp.pc \in {"check", "round", "pause"}
    /\ ccfg.stopfile
    /\ ~stopfile_exists
    /\ stopfile_exists' = TRUE
    /\ UNCHANGED <<cfg, rnd, obs, ccfg, camp>>
    /\ UNCHANGED <<storeVars, tapVars, detVars, auxVars>>

CampaignNext ==
    \/ CampaignCheck
    \/ CampaignRoundEnd
    \/ CampaignRoundRaised
    \/ CampaignPause
    \/ CampaignInterrupt
    \/ CampaignInterruptRoundEnd
    \/ TouchStopfile
    \/ RoundNext

CampaignInit ==
    /\ \E in \in CampaignInputs : cfg = in[1] /\ ccfg = in[2]
    /\ stopfile_exists \in (IF ccfg.stopfile THEN BOOLEAN ELSE {FALSE})
    /\ rnd = IdleRound
    /\ obs = NoObs
    /\ camp = emit([NoCampaign EXCEPT !.pc = "check", !.stop_at_start = stopfile_exists],
                    "CAMPAIGN_START", "")

\* the mission component at rest, for the specifications of the others
MisIdle ==
    /\ cfg = [poll_running_interval_s |-> 1, poll_buttons_interval_s |-> 1,
              post_demon_wait_s |-> 0, timeout_running_s |-> 0, timeout_demon_s |-> 0,
              overall_deadline_s |-> 1, verify_tap |-> TRUE, max_tap_retries |-> 0,
              dry_run |-> FALSE, on_event |-> "None"]
    /\ rnd = IdleRound
    /\ obs = NoObs
    /\ ccfg = NoCampaignConfig
    /\ camp = NoCampaign
    /\ stopfile_exists = FALSE

RoundInit ==
    /\ cfg \in MissionConfigs
    /\ rnd = IdleRound
    /\ obs = NoObs
    /\ ccfg = NoCampaignConfig
    /\ camp = NoCampaign
    /\ stopfile_exists = FALSE

(***************************************************************************)
(* core/clickmap_access.py: save_clickmap.  A file's content is the list   *)
(* of JSON tokens written to it so far; json.dump hands the document to    *)
(* the file token by token.  The process may die at any point of a save.   *)
(***************************************************************************)
MaxSaves == 2

CLICKMAP_FILE == "clickmap.json"

\* the order in which a dict's keys are written
KeyOrder == <<"a", "b">>

\* json.dump(data, f): the tokens of the document
RECURSIVE json_dump(_)
RECURSIVE json_dump_items(_, _)
json_dump_items(v, i) ==
    IF i > Len(KeyOrder) THEN <<>>
    ELSE IF KeyOrder[i] \in DOMAIN v.kids
    THEN <<KeyOrder[i]>> \o json_dump(v.kids[KeyOrder[i]]) \o json_dump_items(v, i + 1)
    ELSE json_dump_items(v, i + 1)

json_dump(v) ==
    IF v.dict THEN <<"{">> \o json_dump_items(v, 1) \o <<"}">>
    ELSE IF v.val = "None" THEN <<"null">>
    ELSE <<v.val>>

\* the documents handed to save_clickmap (data, or _clickmap when None)
SaveDocs == InitClickmaps

NoFile == [exists |-> FALSE, content |-> <<>>]

File(content) == [exists |-> TRUE, content |-> content]

\* tmp_path = CLICKMAP_FILE + ".tmp"
tmp_path_in_place(target) == target

tmp_path(target) == target \o ".tmp"

Paths == {CLICKMAP_FILE, CLICKMAP_FILE \o ".tmp"}

\* os.replace(src, dst): dst becomes src's file in one step, src is gone
os_replace(files, src, dst) ==
    IF src = dst THEN files
    ELSE [files EXCEPT ![dst] = files[src], ![src] = NoFile]

NoSave == [pc |-> "idle", data |-> EmptyDict, todo |-> <<>>, prev |-> <<>>, nsaves |-> 0]

SaveIdle ==
    /\ fs = [p \in Paths |-> IF p = CLICKMAP_FILE THEN File(json_dump(EmptyDict)) ELSE NoFile]
    /\ saver = NoSave

SaveInit ==
    /\ \E d \in SaveDocs :
         fs = [p \in Paths |-> IF p = CLICKMAP_FILE THEN File(json_dump(d)) ELSE NoFile]
    /\ saver = NoSave

\* lines 421-424: open(tmp_path, "w") creates or truncates the temp file;
\* an OSError leaves the files as they are.  A save starts in a process
\* that is not inside one (a later save, or a new process after a crash).
SaveOpen ==
    /\ saver.pc \in {"idle", "done", "raised", "crashed"}
    /\ saver.nsaves < MaxSaves
    /\ \E data \in SaveDocs, ok \in BOOLEAN :
         LET s1 == [saver EXCEPT !.data = data, !.nsaves = @ + 1,
                                 !.prev = fs[CLICKMAP_FILE].content]
         IN  IF ok
             THEN /\ fs' = [fs EXCEPT ![tmp_path(CLICKMAP_FILE)] = File(<<>>)]
                  /\ saver' = [s1 EXCEPT !.pc = "writing", !.todo = json_dump(data)]
             ELSE /\ fs' = fs
                  /\ saver' = [s1 EXCEPT !.pc = "raised", !.todo = <<>>]
    /\ UNCHANGED <<storeVars, tapVars, detVars, misVars, ctlVars, wdVars, fnVars>>

\* line 425: json.dump writes the next token to the temp file, or the
\* write fails (OSError) and the with-block closes the file
SaveWrite ==
    /\ saver.pc = "writing"
    /\ saver.todo # <<>>
    /\ \E ok \in BOOLEAN :
         IF ok
         THEN /\ fs' = [fs EXCEPT ![tmp_path(CLICKMAP_FILE)] =
                                     File(@.content \o <<Head(saver.todo)>>)]
              /\ saver' = [saver EXCEPT !.todo = Tail(@)]
         ELSE /\ fs' = fs
              /\ saver' = [saver EXCEPT !.pc = "raised"]
    /\ UNCHANGED <<storeVars, tapVars, detVars, misVars, ctlVars, wdVars, fnVars>>

\* line 426: os.replace(tmp_path, CLICKMAP_FILE), or its OSError
SaveReplace ==
    /\ saver.pc = "writing"
    /\ saver.todo = <<>>
    /\ \E ok \in BOOLEAN :
         IF ok
         THEN /\ fs' = os_replace(fs, tmp_path(CLICKMAP_FILE), CLICKMAP_FILE)
              /\ saver' = [saver EXCEPT !.pc = "done"]
         ELSE /\ fs' = fs
              /\ saver' = [saver EXCEPT !.pc = "raised"]
    /\ UNCHANGED <<storeVars, tapVars, detVars, misVars, ctlVars, wdVars, fnVars>>

\* the process dies inside a save: the files stay as they are
SaveCrash ==
    /\ saver.pc = "writing"
    /\ saver' = [saver EXCEPT !.pc = "crashed"]
    /\ fs' = fs
    /\ UNCHANGED <<storeVars, tapVars, detVars, misVars, ctlVars, wdVars, fnVars>>

SaveNext ==
    \/ SaveOpen
    \/ SaveWrite
    \/ SaveReplace
    \/ SaveCrash

(***************************************************************************)
(* core/automation_state.py: AutomationControl.  Threads read and assign   *)
(* the state and mode properties; a Python value handed to a setter is     *)
(* [kind, val]: a str, a RunState or ExecMode member, or something else.   *)
(***************************************************************************)
MaxCalls == 3

RunState == {"RUNNING", "PAUSED", "STOPPED", "UNKNOWN"}

ExecMode == {"RETRY", "WAIT", "HOME"}

Threads == {"watchdog", "main", "handler"}

Fields == {"_state", "_mode"}

\* the members of a property's Enum
EnumOf(field) == IF field = "_state" THEN RunState ELSE ExecMode

\* values handed to the setters
SetterValues ==
    {[kind |-> "RunState", val |-> "UNKNOWN"], [kind |-> "ExecMode", val |-> "WAIT"],
     [kind |-> "str", val |-> "PAUSED"], [kind |-> "str", val |-> "HOME"],
     [kind |-> "str", val |-> "paused"], [kind |-> "other", val |-> "42"]}

\* isinstance(value, str): RunState and ExecMode are str subclasses
IsStr(value) == value.kind \in {"str", "RunState", "ExecMode"}

\* lines 115-118 / 149-152 without the Enum lookup: any str is taken as is
CoerceUnchecked(field, value) ==
    IF IsStr(value) THEN [exc |-> "ok", val |-> value.val]
    ELSE [exc |-> "TypeError", val |-> "None"]

\* lines 115-118 / 149-152: RunState(value) / ExecMode(value) for a str,
\* TypeError for anything that is not one
Coerce(field, value) ==
    IF IsStr(value)
    THEN IF value.val \in EnumOf(field)
         THEN [exc |-> "ok", val |-> value.val]
         ELSE [exc |-> "ValueError", val |-> "None"]
    ELSE [exc |-> "TypeError", val |-> "None"]

\* threading.Lock.acquire can proceed
LockFreeAlways(ctl) == TRUE

LockFree(ctl) == ctl._lock = "free"

NoFrame ==
    [pc |-> "idle", op |-> "none", field |-> "_state", arg |-> [kind |-> "str", val |-> ""],
     val |-> "None", exc |-> "ok", got |-> "None",
     set_field |-> "none", set_val |-> "None", set_stamp |-> 0, read_stamp |-> 0,
     snap |-> [_state |-> "RUNNING", _mode |-> "RETRY", nwrites |-> 0]]

\* AutomationControl.__init__
NewControl == [_state |-> "RUNNING", _mode |-> "RETRY", _lock |-> "free", nwrites |-> 0]

CtlIdle ==
    /\ AUTOMATION = NewControl
    /\ frames = [t \in Threads |-> NoFrame]
    /\ ncalls = 0

\* a thread evaluates AUTOMATION.state or AUTOMATION.mode: up to the lock
GetCall(t) ==
    /\ frames[t].pc \in {"idle", "returned"}
    /\ ncalls < MaxCalls
    /\ \E field \in Fields :
         frames' = [frames EXCEPT ![t] = [@ EXCEPT !.pc = "acquire", !.op = "get",
                                                  !.field = field, !.exc = "ok",
                                                  !.got = "None"]]
    /\ ncalls' = ncalls + 1
    /\ UNCHANGED AUTOMATION
    /\ UNCHANGED <<storeVars, tapVars, detVars, misVars, saveVars, wdVars, fnVars>>

\* a thread assigns AUTOMATION.state or AUTOMATION.mode: the coercion of
\* lines 115-118 / 149-152, which raises or goes on to the lock
SetCall(t) ==
    /\ frames[t].pc \in {"idle", "returned"}
    /\ ncalls < MaxCalls
    /\ \E field \in Fields, value \in SetterValues :
         LET c == Coerce(field, value)
             f == [frames[t] EXCEPT !.op = "set", !.field = field, !.arg = value,
                                    !.exc = c.exc, !.val = c.val, !.got = "None",
                                    !.snap = [_state |-> AUTOMATION._state,
                                              _mode |-> AUTOMATION._mode,
                                              nwrites |-> AUTOMATION.nwrites]]
         IN  frames' = [frames EXCEPT ![t] =
                          [f EXCEPT !.pc = IF c.exc = "ok" THEN "acquire" ELSE "returned"]]
    /\ ncalls' = ncalls + 1
    /\ UNCHANGED AUTOMATION
    /\ UNCHANGED <<storeVars, tapVars, detVars, misVars, saveVars, wdVars, fnVars>>

\* with self._lock: (entry)
Acquire(t) ==
    /\ frames[t].pc = "acquire"
    /\ LockFree(AUTOMATION)
    /\ AUTOMATION' = [AUTOMATION EXCEPT !._lock = t]
    /\ frames' = [frames EXCEPT ![t] = [@ EXCEPT !.pc = "locked"]]
    /\ UNCHANGED ncalls
    /\ UNCHANGED <<storeVars, tapVars, detVars, misVars, saveVars, wdVars, fnVars>>

\* the body of the with-block (return self._x, or self._x = value) and the
\* release of the lock on leaving it
Body(t) ==
    /\ frames[t].pc = "locked"
    /\ LET f == frames[t]
       IN  IF f.op = "get"
           THEN /\ AUTOMATION' = [AUTOMATION EXCEPT !._lock = "free"]
                /\ frames' = [frames EXCEPT ![t] =
                                 [f EXCEPT !.pc = "returned", !.got = AUTOMATION[f.field],
                                           !.read_stamp = AUTOMATION.nwrites]]
           ELSE /\ AUTOMATION' = [AUTOMATION EXCEPT ![f.field] = f.val,
                                                    !._lock = "free",
                                                    !.nwrites = @ + 1]
                /\ frames' = [frames EXCEPT ![t] =
                                 [f EXCEPT !.pc = "returned", !.set_field = f.field,
                                           !.set_val = f.val,
                                           !.set_stamp = AUTOMATION.nwrites + 1]]
    /\ UNCHANGED ncalls
    /\ UNCHANGED <<storeVars, tapVars, detVars, misVars, saveVars, wdVars, fnVars>>

CtlNext == \E t \in Threads : GetCall(t) \/ SetCall(t) \/ Acquire(t) \/ Body(t)

(***************************************************************************)
(* core/watchdog.py: watchdog_process_check.  adb_shell never raises; the  *)
(* calls that can are those of utils.logger.log (OSError).  An iteration   *)
(* records the device commands it sent and its assignment to AUTOMATION.   *)
(***************************************************************************)
MaxIters == 3

\* what _get_foreground_package may return: the game, another app, None
ForegroundPackages == {"game", "other", "None"}

NoWatchdog ==
    [pc |-> "check", iters |-> 0, pid_running |-> TRUE, foregrounded |-> TRUE,
     acts |-> <<>>, exc |-> FALSE, last_pkg |-> "None", touched |-> FALSE,
     snap |-> [_state |-> "RUNNING", _mode |-> "RETRY"]]

WdIdle == wd = NoWatchdog

\* AUTOMATION.state = value, from a thread that finds the lock free: the
\* setter's coercion and assignment
AssignState(ctl, value) ==
    LET c == Coerce("_state", value)
    IN  IF c.exc = "ok" THEN [ctl EXCEPT !._state = c.val, !.nwrites = @ + 1] ELSE ctl

\* restart_game (lines 174-190) with its log calls numbered 1 (line 174) and
\* 2 (line 190): the actions done when log call `fail` raises (0: none does)
restart_game_and_bring(fail) ==
    IF fail = 1 THEN <<>>
    ELSE <<"am force-stop", "monkey", "state = UNKNOWN", "monkey">>

restart_game(fail) ==
    IF fail = 1 THEN <<>>
    ELSE <<"am force-stop", "monkey", "state = UNKNOWN">>

\* bring_to_foreground (lines 154-159): the monkey call comes before the log
bring_to_foreground == <<"monkey">>

\* lines 238-243: which recovery the iteration takes
RecoveryAlwaysRestart(pid_running, foregrounded) ==
    IF ~pid_running \/ ~foregrounded THEN "restart" ELSE "none"

Recovery(pid_running, foregrounded) ==
    IF ~pid_running THEN "restart"
    ELSE IF ~foregrounded THEN "bring"
    ELSE "none"

\* lines 235-236: _pid_running and is_game_foregrounded; the latter logs
\* when the package changed or is unknown, and only then stores the package
WdCheck ==
    /\ wd.pc = "check"
    /\ \E running \in BOOLEAN, package \in ForegroundPackages, logged \in BOOLEAN :
         LET logs == package = "None" \/ package # wd.last_pkg
             w1 == [wd EXCEPT !.pid_running = running, !.acts = <<>>, !.exc = FALSE,
                              !.touched = FALSE,
                              !.foregrounded = FALSE,
                              !.snap = [_state |-> AUTOMATION._state,
                                        _mode |-> AUTOMATION._mode]]
         IN  IF logs /\ ~logged
             THEN wd' = [w1 EXCEPT !.pc = "except", !.exc = TRUE]
             ELSE wd' = [w1 EXCEPT !.foregrounded = package = "game",
                                   !.last_pkg = IF package = "None" THEN @ ELSE package,
                                   !.pc = LET r == Recovery(running, package = "game")
                                          IN  IF r = "none" THEN "sleep" ELSE r]
    /\ UNCHANGED <<storeVars, tapVars, detVars, misVars, saveVars, ctlVars, fnVars>>

\* `if not pid_running:` lines 239-240 and restart_game: log, force-stop,
\* relaunch, sleep, AUTOMATION.state = RunState.UNKNOWN, log
WdRestart ==
    /\ wd.pc = "restart"
    /\ \E fail \in 0..3 :
         \* 3: the log call of line 239 raises, before restart_game is called
         LET acts == IF fail = 3 THEN <<>> ELSE restart_game(fail)
         IN  /\ wd' = [wd EXCEPT !.acts = acts, !.exc = fail # 0,
                                 !.pc = IF fail # 0 THEN "except" ELSE "sleep"]
             /\ AUTOMATION' = IF InList("state = UNKNOWN", acts)
                              THEN AssignState(AUTOMATION, [kind |-> "RunState", val |-> "UNKNOWN"])
                              ELSE AUTOMATION
    /\ UNCHANGED <<frames, ncalls>>
    /\ UNCHANGED <<storeVars, tapVars, detVars, misVars, saveVars, fnVars>>

\* `elif not foregrounded:` lines 242-243 and bring_to_foreground
WdBring ==
    /\ wd.pc = "bring"
    /\ \E fail \in 0..2 :
         \* 1: the log call of line 242 raises; 2: that of line 158
         wd' = [wd EXCEPT !.acts = IF fail = 1 THEN <<>> ELSE bring_to_foreground,
                          !.exc = fail # 0,
                          !.pc = IF fail # 0 THEN "except" ELSE "sleep"]
    /\ UNCHANGED <<storeVars, tapVars, detVars, misVars, saveVars, ctlVars, fnVars>>

\* `except Exception as e: log(...)` lines 245-246; the log call of the
\* handler is outside every try
WdExcept ==
    /\ wd.pc = "except"
    /\ \E logged \in BOOLEAN :
         wd' = [wd EXCEPT !.pc = IF logged THEN "sleep" ELSE "dead"]
    /\ UNCHANGED <<storeVars, tapVars, detVars, misVars, saveVars, ctlVars, fnVars>>

\* time.sleep(interval), line 248, and the next pass of `while True`
WdSleep ==
    /\ wd.pc = "sleep"
    /\ wd.iters < MaxIters
    /\ wd' = [wd EXCEPT !.pc = "check", !.iters = @ + 1]
    /\ UNCHANGED <<storeVars, tapVars, detVars, misVars, saveVars, ctlVars, fnVars>>

\* other threads that assign any member to either property
OthersAssignAnyField ==
    /\ wd.pc = "sleep"
    /\ ~wd.touched
    /\ \E field \in Fields, v \in {"RUNNING", "PAUSED", "WAIT"} :
         /\ v \in EnumOf(field)
         /\ AUTOMATION[field] # v
         /\ AUTOMATION' = [AUTOMATION EXCEPT ![field] = v, !.nwrites = @ + 1]
    /\ wd' = [wd EXCEPT !.touched = TRUE]
    /\ UNCHANGED <<frames, ncalls>>
    /\ UNCHANGED <<storeVars, tapVars, detVars, misVars, saveVars, fnVars>>

\* while the watchdog sleeps, a handler called by the main loop assigns to
\* AUTOMATION (once per sleep).  The only assignments outside the watchdog
\* are `AUTOMATION.mode = ExecMode.WAIT` (daily_gem_handler.py line 78,
\* game_over_handler_no_ss.py line 104); main.py, the other handlers and the
\* mission orchestrator assign neither property.
OthersAssign ==
    /\ wd.pc = "sleep"
    /\ ~wd.touched
    /\ AUTOMATION' = [AUTOMATION EXCEPT !._mode = "WAIT", !.nwrites = @ + 1]
    /\ wd' = [wd EXCEPT !.touched = TRUE]
    /\ UNCHANGED <<frames, ncalls>>
    /\ UNCHANGED <<storeVars, tapVars, detVars, misVars, saveVars, fnVars>>

WdNext ==
    \/ WdCheck
    \/ WdRestart
    \/ WdBring
    \/ WdExcept
    \/ WdSleep
    \/ OthersAssign

\* the components added to the model later, at rest
(***************************************************************************)
(* core/matcher.py: get_match / _match_entry (utils/template_matcher.py's  *)
(* match_region resolves the region the same way).  The frame is modelled  *)
(* by max_val, the best score the template reaches in the padded region,   *)
(* and by whether the padded region clamped to the frame is empty.  Scores *)
(* and thresholds are counted in hundredths.                               *)
(***************************************************************************)
\* entry.get("match_threshold", 0.9)
DefaultThreshold == 90

\* d.get(k)
Get(d, k) == IF k \in DOMAIN d.kids THEN d.kids[k] ELSE None

Region == Dict([k \in {"x", "y", "w", "h"} |-> Leaf("0")])

\* a clickmap entry: t, r, ref say what match_template, match_region and
\* region_ref are ("absent" = no such key; r = "null" = JSON null)
Entry(t, r, ref) ==
    LET k1 == IF t = "absent" THEN NoKids ELSE Put(NoKids, "match_template", Leaf(t))
        k2 == IF r = "absent" THEN k1
              ELSE Put(k1, "match_region", IF r = "null" THEN None ELSE Region)
        k3 == IF ref = "absent" THEN k2 ELSE Put(k2, "region_ref", Leaf(ref))
    IN  Dict(k3)

\* the match_threshold values entries are written with
Thresholds == {"0.85", "0.95"}

Entries ==
    {Entry(t, r, ref) : t \in {"absent", "t.png"}, r \in {"absent", "null", "region"},
                        ref \in {"absent", "panel", "ghost"}}
    \cup {Dict(Put(Entry("t.png", "region", "absent").kids, "match_threshold", Leaf(th))) :
              th \in Thresholds}

\* what _shared_match_regions holds: "panel" with a region, "panel" without
\* one, "panel" as an empty entry; the name "ghost" is never defined
SharedRegions ==
    {Dict([k \in {"panel"} |-> Dict([j \in {"match_region"} |-> Region])]),
     Dict([k \in {"panel"} |-> Dict([j \in {"note"} |-> Leaf("n")])]),
     Dict([k \in {"panel"} |-> EmptyDict])}

\* clickmaps with one entry "e", with or without _shared_match_regions
MatchClickmaps ==
    {Dict([k \in {"e"} |-> e]) : e \in Entries}
    \cup {Dict([k \in {"e", "_shared_match_regions"} |-> IF k = "e" THEN e ELSE sh]) :
             e \in Entries, sh \in SharedRegions}

MatchPaths == {<<"e">>, <<"missing">>}

\* (None, 0.0)
NotVisible == [exc |-> "ok", pt |-> "None", conf |-> 0]

Raised(exc) == [exc |-> exc, pt |-> "None", conf |-> 0]

\* float(v) of a threshold as the clickmap writes it, in hundredths
float(v) ==
    CASE v = "0.85" -> 85
      [] v = "0.9" -> 90
      [] v = "0.95" -> 95

\* the default threshold whatever the entry gives
threshold_ignoring_entry(entry) == DefaultThreshold

\* line 90: threshold = float(entry.get("match_threshold", 0.9))
threshold(entry) ==
    IF "match_threshold" \in DOMAIN entry.kids
    THEN float(entry.kids["match_threshold"].val)
    ELSE DefaultThreshold

\* lines 64-68: the entry's own match_region, else the match_region of the
\* shared entry its region_ref names, else None
ResolveRegion(entry) ==
    LET region == Get(entry, "match_region") IN
    IF region = None /\ "region_ref" \in DOMAIN entry.kids
    THEN LET region_entry == resolve_dot_path(<<"_shared_match_regions",
                                                entry.kids["region_ref"].val>>, None)
         IN  IF Truthy(region_entry) THEN Get(region_entry, "match_region") ELSE None
    ELSE region

\* _match_entry(screenshot, entry, template_dir)
match_entry(entry, env) ==
    IF ~Truthy(entry) \/ "match_template" \notin DOMAIN entry.kids THEN NotVisible
    ELSE IF ~env.template_exists THEN Raised("FileNotFoundError")
    ELSE LET region == ResolveRegion(entry) IN
         IF ~Truthy(region) THEN NotVisible
         ELSE IF env.clamped_empty THEN NotVisible
         ELSE IF ~env.template_loads THEN Raised("ValueError")
         ELSE IF env.max_val >= threshold(entry)
         THEN [exc |-> "ok", pt |-> "pt", conf |-> env.max_val]
         ELSE [exc |-> "ok", pt |-> "None", conf |-> env.max_val]

\* get_match(dot_path, screenshot=...)
get_match(dot_path, env) ==
    LET entry == resolve_dot_path(dot_path, None) IN
    IF ~Truthy(entry) THEN NotVisible ELSE match_entry(entry, env)

NoMatcher ==
    [called |-> FALSE, dot_path |-> <<>>,
     env |-> [template_exists |-> TRUE, template_loads |-> TRUE, clamped_empty |-> FALSE,
              max_val |-> 0],
     exc |-> "ok", pt |-> "None", conf |-> 0]

MatchIdle == matcher = NoMatcher

\* best scores on the frame, on either side of each threshold
Scores == {84, 85, 89, 90, 94, 95}

MatchEnvs ==
    [template_exists : BOOLEAN, template_loads : BOOLEAN, clamped_empty : BOOLEAN,
     max_val : Scores]

\* a caller (the classifier, a handler) runs get_match(dot_path, screenshot)
GetMatch ==
    /\ ~matcher.called
    /\ LET r == get_match(matcher.dot_path, matcher.env) IN
       matcher' = [matcher EXCEPT !.called = TRUE, !.exc = r.exc, !.pt = r.pt,
                                  !.conf = r.conf]
    /\ UNCHANGED <<parsed, blind>>
    /\ UNCHANGED <<storeVars, tapVars, detVars, misVars, saveVars, ctlVars, wdVars>>

MatchNext == GetMatch

(***************************************************************************)
(* core/watchdog.py: _parse_pkg_from_text.  A text is a sequence of        *)
(* symbols: " " and "\n" are whitespace, "/" and "}" themselves, "F", "T", *)
(* "R", "A" the literals the four patterns start with, and any other       *)
(* symbol a run of characters that are neither whitespace nor "/" nor "}". *)
(* A captured group is the sequence of symbols it spans; <<>> is None.     *)
(***************************************************************************)
MaxSegs == 2

IsSpace(c) == c \in {" ", "\n"}

\* the last position of the run of non-whitespace symbols that starts at s
RECURSIVE WordEnd(_, _)
WordEnd(t, s) ==
    IF s < Len(t) /\ ~IsSpace(t[s + 1]) THEN WordEnd(t, s + 1) ELSE s

\* (\S+)/\S+ (followed by \} when brace) matched from s: the positions of
\* the "/" that can end the group
Slashes(t, s, brace) ==
    LET e == WordEnd(t, s) IN
    {q \in (s + 1)..(e - 1) :
        /\ t[q] = "/"
        /\ brace => \E j \in (q + 2)..e : t[j] = "}"}

\* the starts s of a group when the literal is at i: between them, symbols
\* that "." matches (anything but "\n"), then one or more whitespace symbols
GroupStarts(t, i, brace) ==
    {s \in (i + 2)..Len(t) :
        /\ ~IsSpace(t[s])
        /\ \E k \in 0..(s - i - 2) :
              /\ \A j \in (i + 1)..(i + k) : t[j] # "\n"
              /\ \A j \in (i + k + 1)..(s - 1) : IsSpace(t[j])
        /\ Slashes(t, s, brace) # {}}

SetMin(S) == CHOOSE x \in S : \A y \in S : x <= y

SetMax(S) == CHOOSE x \in S : \A y \in S : x >= y

\* re.search(pattern, text).group(1), <<>> when there is no match: the
\* leftmost literal from which the pattern matches; ".*?" stops at the
\* first group start that works, ".*" at the last; (\S+) is greedy
re_search(pat, t) ==
    LET starts == {i \in 1..Len(t) : t[i] = pat.lit /\ GroupStarts(t, i, pat.brace) # {}} IN
    IF starts = {} THEN <<>>
    ELSE LET i == SetMin(starts)
             g == GroupStarts(t, i, pat.brace)
             s == IF pat.greedy THEN SetMax(g) ELSE SetMin(g)
         IN  SubSeq(t, s, SetMax(Slashes(t, s, pat.brace)) - 1)

\* mCurrentFocus=Window\{.*?\s+(\S+)/\S+\}
CurrentFocus == [lit |-> "F", greedy |-> FALSE, brace |-> TRUE]

\* topResumedActivity.*?\s+(\S+)/\S+
TopResumed == [lit |-> "T", greedy |-> FALSE, brace |-> FALSE]

\* mResumedActivity.*?\s+(\S+)/\S+
Resumed == [lit |-> "R", greedy |-> FALSE, brace |-> FALSE]

\* mFocusedApp=.*\s+(\S+)/\S+
FocusedApp == [lit |-> "A", greedy |-> TRUE, brace |-> FALSE]

\* the patterns in the order the function tries them
PatternsNewestFirst == <<TopResumed, Resumed, CurrentFocus, FocusedApp>>

Patterns == <<CurrentFocus, TopResumed, Resumed, FocusedApp>>

RECURSIVE FirstGroup(_, _)
FirstGroup(pats, t) ==
    IF pats = <<>> THEN <<>>
    ELSE LET m == re_search(Head(pats), t) IN
         IF m # <<>> THEN m ELSE FirstGroup(Tail(pats), t)

parse_pkg_from_text(text) == IF text = <<>> THEN <<>> ELSE FirstGroup(Patterns, text)

Packages == {"com.example.app", "com.other"}

\* lines of `dumpsys window windows` / `dumpsys activity activities`
Segments ==
    {<<"F", "abc", " ", "u0", " ", pk, "/", "Main", "}", "\n">> : pk \in Packages}
    \cup {<<"T", "=", "{", "abc", " ", "u0", " ", pk, "/", "Main", " ", "t1", "}", "\n">> :
            pk \in Packages}
    \cup {<<" ", "R", ":", " ", "com.other", "/", "Main", "\n">>,
          <<"A", "Token", "{", "abc", " ", "com.other", "/", "Main", " ",
            "com.example.app", "/", "Alias", "}", "\n">>,
          <<"F", "null", "\n">>,
          <<" ", "Display", " ", "#0", "\n">>}

RECURSIVE Texts(_)
Texts(n) ==
    IF n = 0 THEN {<<>>}
    ELSE LET shorter == Texts(n - 1) IN
         shorter \cup {t \o sg : t \in shorter, sg \in Segments}

NotParsed == [called |-> FALSE, text |-> <<>>, pkg |-> <<>>]

ParseIdle == parsed = NotParsed

\* _get_foreground_package hands a dumpsys output to _parse_pkg_from_text
ParsePkgFromText ==
    /\ ~parsed.called
    /\ parsed' = [parsed EXCEPT !.called = TRUE, !.pkg = parse_pkg_from_text(parsed.text)]
    /\ UNCHANGED <<matcher, blind>>
    /\ UNCHANGED <<storeVars, tapVars, detVars, misVars, saveVars, ctlVars, wdVars>>

ParseNext == ParsePkgFromText

(***************************************************************************)
(* handlers/ad_gem_handler.py: the blind tapper.  _blind_tapper_active and *)
(* _blind_tapper_stop are threading.Event objects; is_set(), set() and     *)
(* clear() are each atomic, and a thread can be preempted between any two  *)
(* of them.  A tapper's clock is counted in chunks of its inner sleep      *)
(* (time.sleep(min(0.05, ...))); time passes only while it sleeps.         *)
(***************************************************************************)
MaxTappers == 2

\* the duration and the interval of a valid request, in chunks
Duration == 2

Interval == 1

\* the threads that call start_blind_gem_tapper and stop_blind_gem_tapper:
\* the main loop (handle_ad_gem, and stop in its finally) and a second caller
BlindCallers == {"main", "aux"}

\* the arguments start_blind_gem_tapper is called with
StartArgs == [duration : {0, Duration}, interval : {0, Interval}, blocking : BOOLEAN]

IdleCaller == [pc |-> "idle", blocking |-> FALSE]

\* a thread running _blind_floating_gem_tapper, as threading.Thread starts it
\* (owner is the caller that runs it inline when blocking, else "none");
\* stopped and after_stop record a stop request that met it running and the
\* taps it has submitted since
NewTapper(owner) ==
    [pc |-> "entry", elapsed |-> 0, sleep_left |-> 0, owner |-> owner,
     stopped |-> FALSE, after_stop |-> 0]

\* a tapper that has returned: its locals are gone
Returned(t) == [NewTapper(t.owner) EXCEPT !.pc = "done"]

NoBlind ==
    [active |-> FALSE, stop |-> FALSE, coords |-> TRUE,
     caller |-> [c \in BlindCallers |-> IdleCaller], tappers |-> <<>>]

BlindIdle == blind = NoBlind

\* get_click("gesture_targets.floating_gem_blind_tap") gives coordinates or
\* None, as the clickmap defines the entry or not
BlindInit == blind \in {[NoBlind EXCEPT !.coords = b] : b \in BOOLEAN}

\* a tapper that has been started and has not left _blind_floating_gem_tapper
Live(t) == t.pc \in {"entry", "check", "tap", "sleep", "fin72", "fin73"}

\* a tapper that may still submit a tap
InLoop(t) == t.pc \in {"entry", "check", "tap", "sleep"}

\* start_blind_gem_tapper, lines 101-115: the argument checks, the test of
\* _blind_tapper_active and the lookup of the coordinates
StartBegin(c) ==
    /\ blind.caller[c].pc = "idle"
    /\ \E a \in StartArgs :
         blind' = IF a.duration <= 0 \/ a.interval <= 0 \/ blind.active \/ ~blind.coords
                  THEN blind
                  ELSE [blind EXCEPT !.caller[c] = [pc |-> "l117", blocking |-> a.blocking]]
    /\ UNCHANGED <<matcher, parsed>>
    /\ UNCHANGED <<storeVars, tapVars, detVars, misVars, saveVars, ctlVars, wdVars>>

\* line 117: _blind_tapper_stop.clear()
StartClearStop(c) ==
    /\ blind.caller[c].pc = "l117"
    /\ blind' = [blind EXCEPT !.stop = FALSE, !.caller[c].pc = "l118"]
    /\ UNCHANGED <<matcher, parsed>>
    /\ UNCHANGED <<storeVars, tapVars, detVars, misVars, saveVars, ctlVars, wdVars>>

\* line 118: _blind_tapper_active.set()
StartSetActive(c) ==
    /\ blind.caller[c].pc = "l118"
    /\ blind' = [blind EXCEPT !.active = TRUE, !.caller[c].pc = "l120"]
    /\ UNCHANGED <<matcher, parsed>>
    /\ UNCHANGED <<storeVars, tapVars, detVars, misVars, saveVars, ctlVars, wdVars>>

\* lines 120-132: log(...), which may raise OSError out of
\* start_blind_gem_tapper, then the tapper: called inline when blocking,
\* else started as a thread
StartSpawn(c) ==
    /\ blind.caller[c].pc = "l120"
    /\ \E logged \in BOOLEAN :
         IF ~logged
         THEN blind' = [blind EXCEPT !.caller[c] = IdleCaller]
         ELSE /\ Len(blind.tappers) < MaxTappers
              /\ blind' = [blind EXCEPT
                    !.tappers = Append(@, NewTapper(IF blind.caller[c].blocking
                                                    THEN c ELSE "none")),
                    !.caller[c].pc = IF blind.caller[c].blocking THEN "blocked" ELSE "idle"]
    /\ UNCHANGED <<matcher, parsed>>
    /\ UNCHANGED <<storeVars, tapVars, detVars, misVars, saveVars, ctlVars, wdVars>>

\* the blocking call returns (or raises) when the tapper it runs has left
StartReturn(c) ==
    /\ blind.caller[c].pc = "blocked"
    /\ \E i \in 1..Len(blind.tappers) :
          blind.tappers[i].owner = c /\ ~Live(blind.tappers[i])
    /\ blind' = [blind EXCEPT !.caller[c] = IdleCaller]
    /\ UNCHANGED <<matcher, parsed>>
    /\ UNCHANGED <<storeVars, tapVars, detVars, misVars, saveVars, ctlVars, wdVars>>

\* stop_blind_gem_tapper, line 140: `if _blind_tapper_active.is_set()`;
\* returns False when it is not
StopBegin(c) ==
    /\ blind.caller[c].pc = "idle"
    /\ blind' = IF blind.active THEN [blind EXCEPT !.caller[c].pc = "l141"] ELSE blind
    /\ UNCHANGED <<matcher, parsed>>
    /\ UNCHANGED <<storeVars, tapVars, detVars, misVars, saveVars, ctlVars, wdVars>>

\* line 141-142: _blind_tapper_stop.set(); return True
StopSet(c) ==
    /\ blind.caller[c].pc = "l141"
    /\ blind' = [blind EXCEPT
          !.stop = TRUE,
          !.caller[c] = IdleCaller,
          !.tappers = [i \in 1..Len(@) |->
                          IF InLoop(@[i]) /\ ~@[i].stopped
                          THEN [@[i] EXCEPT !.stopped = TRUE, !.after_stop = 0]
                          ELSE @[i]]]
    /\ UNCHANGED <<matcher, parsed>>
    /\ UNCHANGED <<storeVars, tapVars, detVars, misVars, saveVars, ctlVars, wdVars>>

\* _blind_floating_gem_tapper, lines 39-59: the two early returns, each a
\* log(...) that may raise followed by _blind_tapper_active.clear(); else
\* end_time is taken.  start_blind_gem_tapper passes a positive duration.
TapperEnter(i) ==
    /\ blind.tappers[i].pc = "entry"
    /\ \E logged \in BOOLEAN :
         blind' = IF Duration <= 0 \/ ~blind.coords
                  THEN IF logged
                       THEN [blind EXCEPT !.active = FALSE, !.tappers[i] = Returned(@)]
                       ELSE [blind EXCEPT !.tappers[i].pc = "raised"]
                  ELSE [blind EXCEPT !.tappers[i].pc = "check"]
    /\ UNCHANGED <<matcher, parsed>>
    /\ UNCHANGED <<storeVars, tapVars, detVars, misVars, saveVars, ctlVars, wdVars>>

\* line 61: while time.time() < end_time and not stop_event.is_set()
TapperCheck(i) ==
    /\ blind.tappers[i].pc = "check"
    /\ blind' = [blind EXCEPT !.tappers[i].pc =
                    IF blind.tappers[i].elapsed < Duration /\ ~blind.stop
                    THEN "tap" ELSE "fin72"]
    /\ UNCHANGED <<matcher, parsed>>
    /\ UNCHANGED <<storeVars, tapVars, detVars, misVars, saveVars, ctlVars, wdVars>>

\* lines 62-68: tap(x, y, label=label); an exception of it is logged and
\* breaks out of the loop (into the finally, also when that log raises)
TapperTap(i) ==
    /\ blind.tappers[i].pc = "tap"
    /\ \E ok \in BOOLEAN :
         blind' = IF ok
                  THEN [blind EXCEPT !.tappers[i].pc = "sleep",
                                     !.tappers[i].sleep_left = Interval,
                                     !.tappers[i].after_stop =
                                        IF blind.tappers[i].stopped THEN @ + 1 ELSE @]
                  ELSE [blind EXCEPT !.tappers[i].pc = "fin72"]
    /\ UNCHANGED <<matcher, parsed>>
    /\ UNCHANGED <<storeVars, tapVars, detVars, misVars, saveVars, ctlVars, wdVars>>

\* lines 69-70: while not stop_event.is_set() and time.time() < target:
\* time.sleep(min(0.05, target - time.time()))
TapperSleep(i) ==
    /\ blind.tappers[i].pc = "sleep"
    /\ blind' = IF blind.stop \/ blind.tappers[i].sleep_left = 0
                THEN [blind EXCEPT !.tappers[i].pc = "check"]
                ELSE [blind EXCEPT !.tappers[i].elapsed = @ + 1,
                                   !.tappers[i].sleep_left = @ - 1]
    /\ UNCHANGED <<matcher, parsed>>
    /\ UNCHANGED <<storeVars, tapVars, detVars, misVars, saveVars, ctlVars, wdVars>>

\* line 72, in the finally: _blind_tapper_active.clear()
TapperClearActive(i) ==
    /\ blind.tappers[i].pc = "fin72"
    /\ blind' = [blind EXCEPT !.active = FALSE, !.tappers[i].pc = "fin73"]
    /\ UNCHANGED <<matcher, parsed>>
    /\ UNCHANGED <<storeVars, tapVars, detVars, misVars, saveVars, ctlVars, wdVars>>

\* line 73, in the finally: stop_event.clear(); the tapper returns
TapperClearStop(i) ==
    /\ blind.tappers[i].pc = "fin73"
    /\ blind' = [blind EXCEPT !.stop = FALSE, !.tappers[i] = Returned(@)]
    /\ UNCHANGED <<matcher, parsed>>
    /\ UNCHANGED <<storeVars, tapVars, detVars, misVars, saveVars, ctlVars, wdVars>>

BlindNext ==
    \/ \E c \in BlindCallers :
          \/ StartBegin(c)
          \/ StartClearStop(c)
          \/ StartSetActive(c)
          \/ StartSpawn(c)
          \/ StartReturn(c)
          \/ StopBegin(c)
          \/ StopSet(c)
    \/ \E i \in 1..Len(blind.tappers) :
          \/ TapperEnter(i)
          \/ TapperCheck(i)
          \/ TapperTap(i)
          \/ TapperSleep(i)
          \/ TapperClearActive(i)
          \/ TapperClearStop(i)

AuxIdle == SaveIdle /\ CtlIdle /\ WdIdle /\ MatchIdle /\ ParseIdle /\ BlindIdle

InitStore == StoreInit /\ TapIdle /\ DetIdle /\ MisIdle /\ AuxIdle

InitTap == TapInit /\ StoreIdle /\ DetIdle /\ MisIdle /\ AuxIdle

InitDet == DetInit /\ StoreIdle /\ TapIdle /\ MisIdle /\ AuxIdle

InitRound == RoundInit /\ StoreIdle /\ TapIdle /\ DetIdle /\ AuxIdle

InitCampaign == CampaignInit /\ StoreIdle /\ TapIdle /\ DetIdle /\ AuxIdle

SpecStore == InitStore /\ [][StoreNext]_vars

SpecTap == InitTap /\ [][TapNext]_vars

SpecDet == InitDet /\ [][DetNext]_vars

RoundAloneNext == StartRound \/ RoundNext

SpecRound == InitRound /\ [][RoundAloneNext]_vars

SpecCampaign == InitCampaign /\ [][CampaignNext]_vars

InitSave == SaveInit /\ StoreIdle /\ TapIdle /\ DetIdle /\ MisIdle /\ CtlIdle /\ WdIdle /\ MatchIdle /\ ParseIdle /\ BlindIdle

InitCtl == CtlIdle /\ StoreIdle /\ TapIdle /\ DetIdle /\ MisIdle /\ SaveIdle /\ WdIdle /\ MatchIdle /\ ParseIdle /\ BlindIdle

InitWd == WdIdle /\ CtlIdle /\ StoreIdle /\ TapIdle /\ DetIdle /\ MisIdle /\ SaveIdle /\ MatchIdle /\ ParseIdle /\ BlindIdle

SpecSave == InitSave /\ [][SaveNext]_vars

SpecCtl == InitCtl /\ [][CtlNext]_vars

SpecWd == InitWd /\ [][WdNext]_vars

InitMatch ==
    /\ clickmap \in MatchClickmaps
    /\ before = clickmap
    /\ call = NoCall
    /\ ret = [exc |-> "ok", val |-> None]
    /\ nsets = 0
    /\ matcher \in {[NoMatcher EXCEPT !.dot_path = p, !.env = e] :
                       p \in MatchPaths, e \in MatchEnvs}
    /\ TapIdle /\ DetIdle /\ MisIdle /\ SaveIdle /\ CtlIdle /\ WdIdle /\ ParseIdle /\ BlindIdle

SpecMatch == InitMatch /\ [][MatchNext]_vars

InitParse ==
    /\ parsed \in {[NotParsed EXCEPT !.text = t] : t \in Texts(MaxSegs)}
    /\ StoreIdle /\ TapIdle /\ DetIdle /\ MisIdle /\ SaveIdle /\ CtlIdle /\ WdIdle /\ MatchIdle
    /\ BlindIdle

SpecParse == InitParse /\ [][ParseNext]_vars

InitBlind ==
    /\ BlindInit
    /\ StoreIdle /\ TapIdle /\ DetIdle /\ MisIdle /\ SaveIdle /\ CtlIdle /\ WdIdle /\ MatchIdle
    /\ ParseIdle

SpecBlind == InitBlind /\ [][BlindNext]_vars

(***************************************************************************)
(* Claims about the clickmap store.                                        *)
(***************************************************************************)
\* "some segment of the path is missing or a non-container is traversed"
RECURSIVE PathBroken(_, _)
PathBroken(root, parts) ==
    IF parts = <<>> THEN FALSE
    ELSE IF ~root.dict \/ Head(parts) \notin DOMAIN root.kids THEN TRUE
    ELSE PathBroken(root.kids[Head(parts)], Tail(parts))

\* the root a call addresses: the supplied mapping, else the global store
AddressedRoot == IF call.data = None THEN before ELSE call.data

\* C8: resolve returns absent (None) if and only if some segment of the path
\* is missing or a non-container is traversed, in the global store or in the
\* explicitly supplied root mapping; exists is true exactly when resolve is
\* not absent.
C8_ResolveAbsentIffBroken ==
    /\ call.op = "resolve" =>
          ((ret.val = None) <=> PathBroken(AddressedRoot, call.path))
    /\ call.op = "exists" =>
          ((ret.val = PyBool(TRUE)) <=> ~PathBroken(AddressedRoot, call.path))

\* C9: after a successful set(path, v), on a new path or on an existing one
\* with allow_overwrite, resolve(path) returns v.
C9_SetThenResolve ==
    (call.op = "set" /\ ret.exc = "ok") =>
        resolve_dot_path(call.path, None) = call.value

\* C9 witness: a two-segment set created its intermediate container, and
\* the value is a non-empty one
C9_Witness ==
    /\ call.op = "set" /\ ret.exc = "ok" /\ Len(call.path) = 2
    /\ call.path[1] \notin DOMAIN before.kids
    /\ call.value = Leaf("x")

\* the terminal key of the path exists (every segment before it is a dict)
RECURSIVE TerminalExists(_, _)
TerminalExists(root, parts) ==
    IF ~root.dict \/ Head(parts) \notin DOMAIN root.kids THEN FALSE
    ELSE IF Len(parts) = 1 THEN TRUE
    ELSE TerminalExists(root.kids[Head(parts)], Tail(parts))

\* an intermediate segment of the path exists and is not a dict
RECURSIVE ThroughNonDict(_, _)
ThroughNonDict(root, parts) ==
    IF Len(parts) <= 1 \/ Head(parts) \notin DOMAIN root.kids THEN FALSE
    ELSE IF ~root.kids[Head(parts)].dict THEN TRUE
    ELSE ThroughNonDict(root.kids[Head(parts)], Tail(parts))

\* C10: a set that fails leaves the whole store unchanged; it fails with a
\* key-conflict error on an existing terminal key without allow_overwrite and
\* with a structural error through an intermediate segment that is no
\* container, and set fails in no other case.
C10_FailedSetUnchanged ==
    call.op = "set" =>
        /\ ret.exc # "ok" => clickmap = before
        /\ (ret.exc = "KeyError") <=> (TerminalExists(before, call.path) /\ ~call.ow)
        /\ (ret.exc = "ValueError") <=> ThroughNonDict(before, call.path)

\* C10 witness: a nested set hit an existing terminal key without overwrite
C10_Witness ==
    /\ call.op = "set" /\ ret.exc = "KeyError" /\ Len(call.path) = 2

\* a second failure case of C10: a set through a non-dict intermediate
C10_WitnessStructural ==
    /\ call.op = "set" /\ ret.exc = "ValueError"

(***************************************************************************)
(* Claims about the tap dispatcher.                                        *)
(***************************************************************************)
\* the tap commands of a sequence of tuples
RECURSIVE Commands(_)
Commands(q) == IF q = <<>> THEN <<>> ELSE <<TapCommand(Head(q))>> \o Commands(Tail(q))

\* C1: the device tap calls made by the consumer are the submitted taps in
\* the order they were enqueued, each exactly once: at every moment the calls
\* made, then the tap in the worker's hands, then the queued taps, are exactly
\* the submissions in submission order (no reordering, loss, duplication or
\* coalescing).
C1_TapsInSubmissionOrder ==
    devcalls \o Commands(IF item = <<>> THEN <<>> ELSE <<item>>) \o Commands(TAP_QUEUE)
        = Commands(submitted)

\* C1 witness: three taps were submitted, not all at the same point, and the
\* consumer has executed all of them
C1_Witness ==
    /\ Len(devcalls) = 3 /\ TAP_QUEUE = <<>> /\ item = <<>>
    /\ devcalls[1] # devcalls[2]
    /\ devcalls = Commands(submitted)

(***************************************************************************)
(* Claims about the state classifier.                                      *)
(***************************************************************************)
\* a definition matches the frame: one of its keys resolves and matches
DefMatches(d) == \E i \in DOMAIN d.match_keys : d.match_keys[i] = "match"

\* positions of the definitions of a type that match the frame
MatchingOfType(t) ==
    {i \in DOMAIN state_definitions.states :
        state_definitions.states[i].type = t /\ DefMatches(state_definitions.states[i])}

\* no matcher call raises on this frame
NoMatcherError ==
    /\ \A i \in DOMAIN state_definitions.states :
          \A j \in DOMAIN state_definitions.states[i].match_keys :
             state_definitions.states[i].match_keys[j] # "error"
    /\ \A i \in DOMAIN state_definitions.overlays :
          \A j \in DOMAIN state_definitions.overlays[i].match_keys :
             state_definitions.overlays[i].match_keys[j] # "error"

\* C2: if two primary-typed definitions both match the frame, classify raises
\* and returns no classification (the multiple-primaries RuntimeError, unless
\* a matcher error was raised first); it never picks one of the two.
C2_TwoPrimariesRaise ==
    (detected.called /\ Cardinality(MatchingOfType("primary")) >= 2) =>
        /\ detected.exc # "ok"
        /\ detected.result = NoResult
        /\ NoMatcherError => detected.exc = "RuntimeError"

\* C2 witness: two primaries (and a menu) matched and the call raised the
\* multiple-primaries error
C2_Witness ==
    /\ detected.called /\ detected.exc = "RuntimeError"
    /\ Cardinality(MatchingOfType("primary")) = 2
    /\ MatchingOfType("menu") # {}

\* the smallest element of a non-empty set of positions
MinOf(S) == CHOOSE i \in S : \A j \in S : i <= j

\* C3: in a returned classification, menu is the matching menu-typed
\* definition that comes first in declared order, whatever else matched, and
\* is absent when no menu-typed definition matches.
C3_FirstMenuWins ==
    (detected.called /\ detected.exc = "ok") =>
        detected.result.menu =
            IF MatchingOfType("menu") = {} THEN "None"
            ELSE state_definitions.states[MinOf(MatchingOfType("menu"))].name

\* C3 witness: two menus and a primary matched; the first menu was returned
C3_Witness ==
    /\ detected.called /\ detected.exc = "ok"
    /\ Cardinality(MatchingOfType("menu")) = 2
    /\ MatchingOfType("primary") # {}
    /\ detected.result.menu # "None"

\* a live round that nothing cut short: not a dry run, no KeyboardInterrupt,
\* no exception out of a capture or the classifier
LiveRound == ~cfg.dry_run /\ ~obs.interrupted /\ rnd.pc # "raised"

\* the time the WAIT_RUNNING loop may run: its own timeout, or the overall
\* deadline when that comes first
RunningBudget ==
    IF cfg.timeout_running_s < cfg.overall_deadline_s
    THEN cfg.timeout_running_s ELSE cfg.overall_deadline_s

\* C4: in a live round that is neither interrupted nor left by an exception,
\* as long as the classifier has not reported RUNNING the round is still in
\* WAIT_RUNNING or has returned; no poll starts at or after the WAIT_RUNNING
\* timeout; and the round returns TIMEOUT_WAITING_FOR_RUNNING with a
\* duration recorded for WAIT_RUNNING only, that duration being at least
\* the time the loop may run (the timeout, or the overall deadline if that
\* is shorter) and at most the timeout plus one capture and one poll
\* interval.
C4_NeverRunningTimesOut ==
    (LiveRound /\ ~obs.saw_running)
        => /\ rnd.pc \in {"idle", "wait_running", "done"}
           /\ ~obs.late_poll
           /\ rnd.taps = <<>>
           /\ rnd.pc = "done"
                => /\ rnd.outcome = "TIMEOUT_WAITING_FOR_RUNNING"
                   /\ DOMAIN rnd.phases = {"WAIT_RUNNING"}
                   /\ rnd.phases["WAIT_RUNNING"] >= RunningBudget
                   /\ rnd.phases["WAIT_RUNNING"]
                        <= cfg.timeout_running_s + 1 + cfg.poll_running_interval_s

C4_Witness ==
    /\ LiveRound /\ ~obs.saw_running
    /\ rnd.pc = "done"
    /\ obs.captures >= 2
    /\ cfg.timeout_running_s > 0
    /\ cfg.overall_deadline_s > cfg.timeout_running_s
    /\ rnd.outcome = "TIMEOUT_WAITING_FOR_RUNNING"

\* C5: in a live round with verify_tap on that is neither interrupted nor
\* left by an exception, once RUNNING was seen and the Demon Mode button was
\* detected, and as long as every later detection still shows it, the round
\* is in the verified tap or has returned; it never makes more than
\* max_tap_retries + 1 attempts; and it returns UI_FLOW_FAILURE after
\* exactly max_tap_retries + 1 taps, with a non-empty error list and
\* durations for WAIT_RUNNING and WAIT_TAP_DEMON only.
C5_ButtonStaysVisible ==
    (LiveRound /\ cfg.verify_tap /\ obs.saw_running /\ obs.demon_detected /\ ~obs.demon_gone)
        => /\ rnd.pc \in {"tap_verify", "done"}
           /\ rnd.attempts <= cfg.max_tap_retries + 1
           /\ rnd.pc = "done"
                => /\ rnd.outcome = "UI_FLOW_FAILURE"
                   /\ rnd.errors # <<>>
                   /\ rnd.attempts = cfg.max_tap_retries + 1
                   /\ Len(rnd.taps) = cfg.max_tap_retries + 1
                   /\ DOMAIN rnd.phases = {"WAIT_RUNNING", "WAIT_TAP_DEMON"}

C5_Witness ==
    /\ LiveRound /\ cfg.verify_tap /\ obs.saw_running /\ obs.demon_detected /\ ~obs.demon_gone
    /\ rnd.pc = "done"
    /\ cfg.max_tap_retries = MaxRetries
    /\ rnd.outcome = "UI_FLOW_FAILURE"

\* C6: with max_runs = N the campaign never starts more than N rounds; and
\* when it has returned because of max_runs (not the duration, the stop
\* file, the until-predicate or an interrupt), it ran exactly N rounds and
\* reports runs = N, and if every round timed out, successes = 0 and the
\* two timeout counters add up to N.
C6_MaxRunsBoundsRounds ==
    ccfg.max_runs # NoLimit
        => /\ camp.started <= ccfg.max_runs
           /\ camp.runs <= camp.started
           /\ (camp.pc = "returned" /\ camp.stop_reason = "max_runs")
                => /\ camp.started = ccfg.max_runs
                   /\ camp.runs = ccfg.max_runs
                   /\ camp.all_timed_out
                        => /\ camp.successes = 0
                           /\ camp.to_run + camp.to_demon = ccfg.max_runs
                           /\ ~camp.aborted

C6_Witness ==
    /\ ccfg.max_runs = 2
    /\ camp.pc = "returned"
    /\ camp.stop_reason = "max_runs"
    /\ camp.all_timed_out
    /\ camp.runs = 2
    /\ camp.to_run = 1 /\ camp.to_demon = 1

\* C7: when the stop file is configured and exists as the campaign starts,
\* no round is ever started (no position in a round, no capture, no tap),
\* and the campaign's result reports runs = 0 and no last result.
C7_StopfileAtStart ==
    (ccfg.stopfile /\ camp.stop_at_start)
        => /\ camp.started = 0
           /\ rnd = IdleRound
           /\ obs.captures = 0
           /\ camp.pc \in {"check", "returned"}
           /\ camp.pc = "returned" => camp.runs = 0 /\ camp.last_result = "None"

C7_Witness ==
    /\ ccfg.stopfile /\ camp.stop_at_start
    /\ ccfg.max_runs = NoLimit /\ ccfg.max_duration_s = NoLimit
    /\ camp.pc = "returned"
    /\ camp.stop_reason = "stopfile"
    /\ camp.runs = 0

\* a file that holds a complete JSON document
CompleteDocument(f) == f.exists /\ \E d \in SaveDocs : f.content = json_dump(d)

\* C11: at every point of a save, a process death or an I/O error at any
\* step included, the target file holds a complete document: the one it
\* held when the save started until the rename, the new one after it.
C11_SaveAtomic ==
    /\ CompleteDocument(fs[CLICKMAP_FILE])
    /\ saver.pc \in {"writing", "raised", "crashed"}
         => fs[CLICKMAP_FILE].content = saver.prev
    /\ saver.pc = "done" => fs[CLICKMAP_FILE].content = json_dump(saver.data)

C11_Witness ==
    /\ saver.pc = "crashed"
    /\ fs[tmp_path(CLICKMAP_FILE)].exists
    /\ ~CompleteDocument(fs[tmp_path(CLICKMAP_FILE)])
    /\ Len(fs[tmp_path(CLICKMAP_FILE)].content) >= 2
    /\ saver.nsaves = 2
    /\ fs[CLICKMAP_FILE].content # json_dump(saver.data)
    /\ fs[CLICKMAP_FILE].content # json_dump(EmptyDict)

\* C12: both fields always hold a member of their enumeration; a setter
\* handed a value outside the enumeration raises ValueError (a str) or
\* TypeError (not a str) and never reaches the assignment; and as long as
\* no other assignment has been made since that call started, _state and
\* _mode are what they were when it started.
C12_InvalidValueRejected ==
    /\ AUTOMATION._state \in RunState
    /\ AUTOMATION._mode \in ExecMode
    /\ \A t \in Threads :
         LET f == frames[t]
         IN  (f.op = "set" /\ ~(IsStr(f.arg) /\ f.arg.val \in EnumOf(f.field)))
                => /\ f.pc = "returned"
                   /\ f.exc = (IF IsStr(f.arg) THEN "ValueError" ELSE "TypeError")
                   /\ AUTOMATION.nwrites = f.snap.nwrites
                        => /\ AUTOMATION._state = f.snap._state
                           /\ AUTOMATION._mode = f.snap._mode

C12_Witness ==
    /\ AUTOMATION._state = "PAUSED"
    /\ frames["main"].op = "set" /\ frames["main"].field = "_state"
    /\ frames["main"].arg = [kind |-> "ExecMode", val |-> "WAIT"]
    /\ frames["main"].exc = "ValueError"
    /\ frames["handler"].op = "set" /\ frames["handler"].exc = "TypeError"

\* C13: at most one thread is inside a with-block of the lock, and it is
\* the holder of the lock; and a read that a thread makes after its own
\* assignment of v to the same property, no other assignment having been
\* made in between, returns v.
C13_LockedLatestWrite ==
    /\ \A t, u \in Threads :
         (frames[t].pc = "locked" /\ frames[u].pc = "locked") => t = u
    /\ \A t \in Threads : frames[t].pc = "locked" <=> AUTOMATION._lock = t
    /\ \A t \in Threads :
         LET f == frames[t]
         IN  (f.op = "get" /\ f.pc = "returned" /\ f.field = f.set_field
              /\ f.read_stamp = f.set_stamp)
                => f.got = f.set_val

C13_Witness ==
    /\ frames["main"].op = "get" /\ frames["main"].pc = "returned"
    /\ frames["main"].field = "_mode" /\ frames["main"].set_field = "_mode"
    /\ frames["main"].read_stamp = frames["main"].set_stamp
    /\ frames["main"].got = "HOME"
    /\ frames["watchdog"].pc = "acquire"

\* C14: whatever goes wrong while the consumer processes a dequeued request
\* (here: log_tap failing after the tap was injected), the consumer thread
\* stays alive.
C14_WorkerStaysAlive == worker # "dead"

\* the iteration of the watchdog has run to its sleep without an exception
IterationDone == wd.pc = "sleep" /\ ~wd.exc

\* C15: in an iteration that found the game process not running, what the
\* watchdog does is, in this order, force-stop, relaunch, run_state :=
\* UNKNOWN, and nothing else (no second launcher intent to bring the game
\* to the foreground); an iteration that no logging error cut short has
\* done all three, and run_state is UNKNOWN until another thread assigns it.
C15_RestartSequence ==
    (wd.pc \in {"restart", "except", "sleep", "dead"} /\ ~wd.pid_running)
        => /\ wd.acts \in {<<>>, <<"am force-stop", "monkey", "state = UNKNOWN">>}
           /\ IterationDone => wd.acts = <<"am force-stop", "monkey", "state = UNKNOWN">>
           /\ (wd.acts # <<>> /\ ~wd.touched) => AUTOMATION._state = "UNKNOWN"

C15_Witness ==
    /\ IterationDone
    /\ ~wd.pid_running
    /\ wd.foregrounded
    /\ wd.snap._state = "RUNNING" /\ wd.snap._mode = "WAIT"
    /\ AUTOMATION._state = "UNKNOWN"
    /\ wd.acts = <<"am force-stop", "monkey", "state = UNKNOWN">>

\* C16: in an iteration that found the process running, the watchdog sends
\* no force-stop and leaves run_state and exec_mode as it found them; if the
\* game is not in the foreground it sends the launcher intent, once and
\* nothing else (nothing at all if a logging error cut the iteration short
\* before that); if the game is in the foreground it does nothing at all.
C16_ForegroundOnly ==
    (wd.pc \in {"bring", "except", "sleep", "dead"} /\ wd.pid_running)
        => /\ wd.acts \in {<<>>, <<"monkey">>}
           /\ wd.foregrounded => wd.acts = <<>>
           /\ (IterationDone /\ ~wd.foregrounded) => wd.acts = <<"monkey">>
           /\ ~wd.touched => /\ AUTOMATION._state = wd.snap._state
                             /\ AUTOMATION._mode = wd.snap._mode

C16_Witness ==
    /\ IterationDone
    /\ wd.pid_running /\ ~wd.foregrounded
    /\ wd.acts = <<"monkey">>
    /\ ~wd.touched
    /\ AUTOMATION._state = "UNKNOWN" /\ AUTOMATION._mode = "WAIT"

\* C17: the watchdog thread is never ended by an exception.
C17_WatchdogNeverDies == wd.pc # "dead"

\* the overall deadline of the round has passed
PastDeadline == rnd.pc \in RunningPcs /\ rnd.now >= rnd.deadline

\* the round is about to start a tap retry (a pass of the verify loop after
\* the first), a countdown step, or a step of the end sequence
AboutToStep ==
    \/ rnd.pc = "tap_verify" /\ rnd.attempts >= 1
    \/ rnd.pc = "post_demon" /\ rnd.remaining > 0
    \/ rnd.pc \in {"end_menu", "end_round", "end_yes", "end_retry"}

\* C18: once the overall deadline has passed, the round is never positioned
\* to start a tap retry, a countdown step or an end-sequence step.
C18_DeadlineBoundsEveryStep == PastDeadline => ~AboutToStep

\* C19: the step in which a KeyboardInterrupt is raised ends the round with
\* outcome ABORTED_BY_USER, sends no tap, lets no time pass, records no
\* error, and records a duration for the interrupted phase and for no later
\* one; an interrupted round stays returned with that outcome.
C19_InterruptAborts ==
    /\ [](obs.interrupted => (rnd.pc = "done" /\ rnd.outcome = "ABORTED_BY_USER"))
    /\ [][(obs'.interrupted /\ ~obs.interrupted)
            => /\ rnd'.pc = "done"
               /\ rnd'.outcome = "ABORTED_BY_USER"
               /\ rnd'.taps = rnd.taps
               /\ rnd'.now = rnd.now
               /\ rnd'.errors = rnd.errors
               /\ DOMAIN rnd'.phases = (DOMAIN rnd.phases) \cup {PhaseOf(rnd.pc)}]_vars

C19_Witness ==
    /\ obs.interrupted
    /\ rnd.outcome = "ABORTED_BY_USER"
    /\ rnd.remaining > 0
    /\ rnd.taps # <<>>
    /\ DOMAIN rnd.phases = {"WAIT_RUNNING", "WAIT_TAP_DEMON", "POST_DEMON_WAIT"}

\* the outcomes a MissionResult can carry (MissionOutcome)
MissionOutcomes ==
    {"SUCCESS", "TIMEOUT_WAITING_FOR_RUNNING", "TIMEOUT_WAITING_FOR_DEMON",
     "UI_FLOW_FAILURE", "ABORTED_BY_USER"}

\* C20: a round is never left by an exception; a round that has ended has
\* returned a MissionResult whose outcome is one of the five outcomes.
C20_RoundReturnsResult ==
    /\ rnd.pc # "raised"
    /\ rnd.pc = "done" => rnd.outcome \in MissionOutcomes

\* the labels of the three steps of the end sequence
EndLabels == {"overlays.end_round", "buttons.yes:end_round", "buttons.retry:game_over"}

\* the steps of the end sequence that sent no tap
FailedEndSteps == {l \in EndLabels : ~InList(l, rnd.taps)}

\* C21: a live round that went through the end sequence reports SUCCESS
\* and its error list holds one entry for every step that failed to tap.
C21_FailedStepsRecorded ==
    (LiveRound /\ rnd.pc = "done" /\ "END_GAME_SEQUENCE" \in DOMAIN rnd.phases)
        => /\ rnd.outcome = "SUCCESS"
           /\ Len(rnd.errors) = Cardinality(FailedEndSteps)

\* the entry get_match resolved names a shared region that
\* _shared_match_regions does not define, and has no region of its own
UnknownRegionRef ==
    LET entry == resolve_dot_path(matcher.dot_path, None) IN
    /\ Truthy(entry)
    /\ "match_template" \in DOMAIN entry.kids
    /\ Get(entry, "match_region") = None
    /\ "region_ref" \in DOMAIN entry.kids
    /\ resolve_dot_path(<<"_shared_match_regions", entry.kids["region_ref"].val>>, None) = None

\* C22: matching an entry whose region reference is not defined raises; it
\* never returns a point or (None, confidence).
C22_UnknownRegionRefRaises ==
    (matcher.called /\ UnknownRegionRef) => matcher.exc # "ok"

\* C23: every tap the round has sent to the device was put on TAP_QUEUE by
\* tap() (under its label) before it reached the device.
C23_TapsThroughQueue ==
    \A i \in 1..Len(rnd.taps) :
        \E j \in 1..Len(submitted) : submitted[j][3] = rnd.taps[i]

\* the text of the fixture: mCurrentFocus=Window{abc u0 com.example.app/Main}
FocusFixture == <<"F", "abc", " ", "u0", " ", "com.example.app", "/", "Main", "}", "\n">>

\* C24: the parser returns the group of the first pattern that matches, in
\* the order mCurrentFocus, topResumedActivity, mResumedActivity,
\* mFocusedApp; None when none matches or the text is empty; and
\* com.example.app on every text that starts with the fixture line.
C24_FirstPatternWins ==
    parsed.called =>
        LET t  == parsed.text
            m1 == re_search(CurrentFocus, t)
            m2 == re_search(TopResumed, t)
            m3 == re_search(Resumed, t)
            m4 == re_search(FocusedApp, t)
        IN  /\ parsed.pkg = IF t = <<>> THEN <<>>
                            ELSE IF m1 # <<>> THEN m1
                            ELSE IF m2 # <<>> THEN m2
                            ELSE IF m3 # <<>> THEN m3
                            ELSE m4
            /\ (Len(t) >= Len(FocusFixture) /\ SubSeq(t, 1, Len(FocusFixture)) = FocusFixture)
                  => parsed.pkg = <<"com.example.app">>
            /\ (\A i \in 1..Len(t) : t[i] \notin {"F", "T", "R", "A"}) => parsed.pkg = <<>>

C24_Witness ==
    /\ parsed.called
    /\ parsed.text = <<"T", "=", "{", "abc", " ", "u0", " ", "com.other", "/", "Main", " ",
                       "t1", "}", "\n">> \o FocusFixture
    /\ parsed.pkg = <<"com.example.app">>

\* the phases in the order of the source
PhaseOrder == <<"WAIT_RUNNING", "WAIT_TAP_DEMON", "POST_DEMON_WAIT", "END_GAME_SEQUENCE">>

\* the position of the phase the round is in
PhaseIndex(pc) == CHOOSE i \in 1..4 : PhaseOrder[i] = PhaseOf(pc)

\* the phases that have ended, by the durations recorded
Ended(r) == DOMAIN r.phases

FirstPhases(n) == {PhaseOrder[i] : i \in 1..n}

\* C25: while the round is in its n-th phase exactly the n-1 phases before
\* it have ended; a step keeps the round in its phase, moves it to the next
\* phase, or ends the round; a phase that yields an outcome ends the round;
\* and a round that has ended starts no phase.
C25_PhasesInOrder ==
    /\ [](rnd.pc \in RunningPcs
            => (Ended(rnd) = FirstPhases(PhaseIndex(rnd.pc) - 1) /\ rnd.outcome = "none"))
    /\ []((rnd.pc \in {"done", "raised"})
            => \E n \in 1..4 : Ended(rnd) = FirstPhases(n))
    /\ [][(rnd.pc \in RunningPcs /\ rnd'.pc \in RunningPcs)
            => PhaseIndex(rnd'.pc) \in {PhaseIndex(rnd.pc), PhaseIndex(rnd.pc) + 1}]_vars
    /\ [][(rnd.pc = "idle" /\ rnd'.pc # "idle") => rnd'.pc = "wait_running"]_vars
    /\ [][(rnd.pc \in {"done", "raised"}) => rnd'.pc \notin RunningPcs]_vars

C25_Witness ==
    /\ ~cfg.dry_run
    /\ rnd.pc = "done"
    /\ rnd.outcome = "SUCCESS"
    /\ Ended(rnd) = FirstPhases(4)
    /\ Len(rnd.taps) = 4

\* C26: in a round that is not a dry run, when the timed wait has started
\* the Demon Mode button has been tapped at least once.
C26_TriggerTapped ==
    (~cfg.dry_run /\ rnd.pc = "post_demon") => InList("floating_buttons.demon_mode", rnd.taps)

\* C27 as stated: the stop file is also checked between the end of a round
\* and the pause, so a campaign never goes from a round to the pause while
\* the file exists.
C27_CheckedAfterRound ==
    [][(camp.pc = "round" /\ camp'.pc = "pause") => ~StopfilePresent]_vars

\* C27: the stop file is checked before each round and after the pause
\* that follows it; at either check a campaign that finds the file returns,
\* no round is started while the file exists, and a campaign stopped by the
\* file has no round in progress.
C27_StopfileChecks ==
    /\ [][StopfilePresent => camp'.started = camp.started]_vars
    /\ [][(StopfilePresent /\ camp.pc \in {"check", "pause"} /\ camp'.pc # camp.pc)
            => camp'.pc = "returned"]_vars
    /\ []((camp.pc = "returned" /\ camp.stop_reason = "stopfile")
            => (stopfile_exists /\ camp.runs = camp.started /\ rnd = IdleRound))

C27_Witness ==
    /\ ccfg.stopfile /\ ~camp.stop_at_start
    /\ ccfg.sleep_between_runs_s > 0
    /\ camp.pc = "returned"
    /\ camp.stop_reason = "stopfile"
    /\ camp.runs = 1
    /\ ccfg.max_runs = 2

\* a step in which run_demon_mode_campaign takes back a round that returned
\* and goes through lines 369-396 without a user interrupt
RoundTakenBack ==
    /\ camp.pc = "round" /\ rnd.pc = "done" /\ camp'.pc # "round"
    /\ camp'.stop_reason # "interrupt"

\* C28: with a progress probe, each round that returned without
\* ABORTED_BY_USER is followed by one pass through the probe (none after an
\* aborted round, none without a probe); when the probe returns, its snapshot
\* becomes the campaign's progress and the until-predicate is applied to it;
\* the campaign stops with no further round exactly when the predicate
\* returns true; an error of the probe or of the predicate leaves the progress
\* of the last returned snapshot and the campaign goes on to the pause.
C28_ProgressProbe ==
    /\ [][RoundTakenBack =>
            IF rnd.outcome = "ABORTED_BY_USER" \/ ~ccfg.progress_detector
            THEN /\ camp'.probe = "none"
                 /\ camp'.met = "none"
                 /\ camp'.progress = camp.progress
                 /\ camp'.stop_reason # "until"
            ELSE /\ camp'.probe \in {"capture_raised", "raised", "returned"}
                 /\ camp'.probe = "returned" =>
                        /\ camp'.progress = camp'.runs
                        /\ camp'.met = "none" <=> ~ccfg.until
                 /\ camp'.probe # "returned" =>
                        /\ camp'.progress = camp.progress
                        /\ camp'.met = "none"
                 /\ camp'.met = "True" <=> camp'.stop_reason = "until"
                 /\ camp'.met = "True" => camp'.pc = "returned"
                 /\ camp'.met # "True" => camp'.pc = "pause"]_vars
    /\ [][~RoundTakenBack => camp'.progress = camp.progress]_vars
    /\ [][camp.stop_reason = "until" => camp' = camp]_vars
    /\ [](camp.stop_reason = "until" => (camp.runs = camp.started /\ rnd = IdleRound))

\* the probe returned a snapshot after the first round and raised after the
\* second; the campaign is on its way to the next round
C28_Witness ==
    /\ ccfg.progress_detector
    /\ camp.pc = "pause"
    /\ camp.runs = 2
    /\ camp.probe = "raised"
    /\ camp.progress = 1

\* the until-predicate raised on the second snapshot
C28_WitnessPredicateRaised ==
    /\ camp.pc = "pause"
    /\ camp.runs = 2
    /\ camp.met = "raised"
    /\ camp.progress = 2

\* the predicate returned true on the second snapshot
C28_WitnessUntil ==
    /\ camp.stop_reason = "until"
    /\ camp.runs = 2
    /\ camp.progress = 2

\* some key of the list matches on the frame
HasMatch(keys) == \E k \in 1..Len(keys) : keys[k] = "match"

\* no key of the list makes the matcher raise before a key has matched
NoErrorBeforeMatch(keys) ==
    \A k \in 1..Len(keys) :
        keys[k] = "error" => \E j \in 1..(k - 1) : keys[j] = "match"

\* C29: a state definition reached by the loop (no key of it or of an earlier
\* definition makes the matcher raise before a match) is in matched_states
\* if and only if one of its keys matches: keys that do not resolve, have no
\* template or do not match are passed over and the keys after them tried,
\* and the keys after the first match are not tried.
C29_MatchedIffSomeKey ==
    detected.called =>
        \A i \in 1..Len(state_definitions.states) :
            (\A j \in 1..i : NoErrorBeforeMatch(state_definitions.states[j].match_keys))
            => (InList(state_definitions.states[i].name, detected.matched_states)
                    <=> HasMatch(state_definitions.states[i].match_keys))

\* the first definition matches at its fourth key, after an unresolved key, a
\* key without template and a key that does not match; the second matches at
\* its first key and its raising second key is never tried; the third has no
\* matching key
C29_Witness ==
    /\ detected.called
    /\ detected.exc = "ok"
    /\ Len(state_definitions.states) = 3
    /\ state_definitions.states[1].match_keys = <<"unresolved", "notemplate", "nomatch", "match">>
    /\ state_definitions.states[2].match_keys = <<"match", "error">>
    /\ state_definitions.states[3].match_keys = <<"nomatch", "unresolved">>
    /\ detected.matched_states = <<"RUNNING", "GAME_OVER">>

\* the names of the overlay definitions with a matching key, in listed order
RECURSIVE MatchingOverlays(_)
MatchingOverlays(ovs) ==
    IF ovs = <<>> THEN <<>>
    ELSE (IF HasMatch(Head(ovs).match_keys) THEN <<Head(ovs).name>> ELSE <<>>)
         \o MatchingOverlays(Tail(ovs))

\* the same frame with no overlay definitions
WithoutOverlays == detect_state_and_overlays([state_definitions EXCEPT !.overlays = <<>>])

\* C30: when detect_state_and_overlays returns, overlays lists every overlay
\* definition with a matching key, and state, menu and secondary_states are
\* what the same states give with no overlay definitions at all.
C30_OverlaysIndependent ==
    (detected.called /\ detected.exc = "ok") =>
        /\ detected.result.overlays = MatchingOverlays(state_definitions.overlays)
        /\ WithoutOverlays.exc = "ok"
        /\ detected.result.state = WithoutOverlays.result.state
        /\ detected.result.menu = WithoutOverlays.result.menu
        /\ detected.result.secondary_states = WithoutOverlays.result.secondary_states

\* two overlays reported at once on a frame with a primary state and a menu
C30_Witness ==
    /\ detected.called
    /\ detected.exc = "ok"
    /\ Len(detected.result.overlays) = 2
    /\ detected.result.state # "UNKNOWN"
    /\ detected.result.menu # "None"

\* one overlay of two reported on a frame with the same kind of states
C30_WitnessOne ==
    /\ detected.called
    /\ detected.exc = "ok"
    /\ Len(state_definitions.overlays) = 2
    /\ detected.result.overlays = <<"MENU_OPEN">>
    /\ detected.result.state # "UNKNOWN"
    /\ detected.result.menu # "None"

\* the positions of the primary-typed definitions with a matching key
MatchedPrimaries ==
    {i \in 1..Len(state_definitions.states) :
        /\ state_definitions.states[i].type = "primary"
        /\ HasMatch(state_definitions.states[i].match_keys)}

\* C31: in a returned classification state is "UNKNOWN" exactly when no
\* primary-typed definition matched; otherwise one primary matched, state is
\* its name, and that name is neither the menu nor among secondary_states.
C31_StateIsThePrimary ==
    (detected.called /\ detected.exc = "ok") =>
        /\ detected.result.state = "UNKNOWN" <=> MatchedPrimaries = {}
        /\ MatchedPrimaries # {} =>
              /\ Cardinality(MatchedPrimaries) = 1
              /\ \A i \in MatchedPrimaries :
                    detected.result.state = state_definitions.states[i].name
              /\ detected.result.menu # detected.result.state
              /\ ~InList(detected.result.state, detected.result.secondary_states)

\* a frame on which a secondary, a primary and a menu definition match
C31_Witness ==
    /\ detected.called
    /\ detected.exc = "ok"
    /\ detected.result.state = "GAME_OVER"
    /\ detected.result.secondary_states = <<"RUNNING">>
    /\ detected.result.menu = "HOME_SCREEN"

\* a frame with matching definitions none of which is primary
C31_WitnessUnknown ==
    /\ detected.called
    /\ detected.exc = "ok"
    /\ detected.result.state = "UNKNOWN"
    /\ detected.result.secondary_states # <<>>
    /\ detected.result.menu # "None"

\* get_match resolved an entry with a template that exists and loads and a
\* region (its own or a shared one) of which a part lies inside the frame
Measured ==
    LET entry == resolve_dot_path(matcher.dot_path, None) IN
    /\ matcher.called
    /\ Truthy(entry)
    /\ "match_template" \in DOMAIN entry.kids
    /\ Truthy(ResolveRegion(entry))
    /\ matcher.env.template_exists /\ matcher.env.template_loads
    /\ ~matcher.env.clamped_empty

\* the threshold the entry is written with, 0.90 when it gives none
WrittenThreshold ==
    LET mt == Get(resolve_dot_path(matcher.dot_path, None), "match_threshold") IN
    IF mt = None THEN 90
    ELSE IF mt = Leaf("0.85") THEN 85
    ELSE 95

\* C32: for an entry with a template and a resolvable region the matcher
\* returns without raising, returns a point if and only if the best score is
\* at or above the entry's threshold (0.90 when the entry gives none), and
\* returns the best score as the confidence whether or not there is a point.
C32_PointIffAtThreshold ==
    Measured =>
        /\ matcher.exc = "ok"
        /\ matcher.pt # "None" <=> matcher.env.max_val >= WrittenThreshold
        /\ matcher.conf = matcher.env.max_val

\* a failed match under the entry's own threshold, with a score the default
\* threshold would have accepted
C32_Witness ==
    /\ Measured
    /\ WrittenThreshold = 95
    /\ matcher.env.max_val = 94
    /\ matcher.pt = "None"
    /\ matcher.conf = 94

\* a match at exactly the default threshold
C32_WitnessAtDefault ==
    /\ Measured
    /\ WrittenThreshold = 90
    /\ matcher.env.max_val = 90
    /\ matcher.pt = "pt"

\* the tappers that are inside their tap loop (lines 61-70)
Tapping == {i \in 1..Len(blind.tappers) : blind.tappers[i].pc \in {"check", "tap", "sleep"}}

\* C33: at most one blind tapper is in its tap loop at any time, whatever
\* the interleaving of the start calls with the tappers.
C33_AtMostOneTapper == Cardinality(Tapping) <= 1

\* C34: a tapper that was running when stop_blind_gem_tapper set the stop
\* flag (and returned True) submits at most one more tap.
C34_StopNeverLost ==
    \A i \in 1..Len(blind.tappers) :
        blind.tappers[i].stopped => blind.tappers[i].after_stop <= 1

\* C35: _blind_tapper_active is set only while a tapper is running or a
\* start that has set it is about to start one.
C35_ActiveOnlyWhileRunning ==
    blind.active =>
        \/ \E i \in 1..Len(blind.tappers) : Live(blind.tappers[i])
        \/ \E c \in BlindCallers : blind.caller[c].pc = "l120"

\* a frame of the round or of the campaign without its count of caught
\* callback errors
Flow(r) == [r EXCEPT !.cb_errors = 0]

\* the events a round and a campaign emit
RoundEvents ==
    {"PHASE_START", "PHASE_END"} \X
        {"WAIT_RUNNING", "WAIT_TAP_DEMON", "POST_DEMON_WAIT", "END_GAME_SEQUENCE"}

CampaignEvents == {"CAMPAIGN_START", "ROUND_START", "ROUND_END", "PROGRESS"} \X {""}

C36_WitnessRound ==
    /\ cfg.on_event = "raises"
    /\ rnd.pc = "done"
    /\ rnd.outcome = "SUCCESS"
    /\ rnd.cb_errors = 8

\* the phases with a PHASE_START (a PHASE_END) among the round's events
PhasesStarted == {rnd.events[i][2] : i \in {j \in 1..Len(rnd.events) : rnd.events[j][1] = "PHASE_START"}}

PhasesEnded == {rnd.events[i][2] : i \in {j \in 1..Len(rnd.events) : rnd.events[j][1] = "PHASE_END"}}

\* C37: every PHASE_START is followed at once by the PHASE_END of the same
\* phase, except the last one while the round is still inside that phase;
\* every PHASE_END follows the PHASE_START of its phase; the recorded
\* durations are those of the phases ended, each the time spent since the
\* phase started; and when the round returns, whatever the outcome, or is
\* left by an exception, phases has an entry for exactly the phases started.
C37_PhaseDurationsRecorded ==
    /\ \A i \in 1..Len(rnd.events) :
          /\ rnd.events[i][1] = "PHASE_START" =>
                IF i < Len(rnd.events)
                THEN rnd.events[i + 1] = <<"PHASE_END", rnd.events[i][2]>>
                ELSE rnd.pc \in RunningPcs /\ PhaseOf(rnd.pc) = rnd.events[i][2]
          /\ rnd.events[i][1] = "PHASE_END" =>
                i > 1 /\ rnd.events[i - 1] = <<"PHASE_START", rnd.events[i][2]>>
    /\ DOMAIN rnd.phases = PhasesEnded
    /\ \A n \in DOMAIN rnd.phases : rnd.phases[n] \in 0..rnd.now
    /\ rnd.pc \in RunningPcs => rnd.events # <<>> /\ rnd.events[Len(rnd.events)][1] = "PHASE_START"
    /\ rnd.pc \in {"done", "raised"} => PhasesStarted # {} /\ DOMAIN rnd.phases = PhasesStarted

\* a round interrupted by the user in its second phase, after a first phase
\* that took time
C37_Witness ==
    /\ rnd.pc = "done"
    /\ rnd.outcome = "ABORTED_BY_USER"
    /\ DOMAIN rnd.phases = {"WAIT_RUNNING", "WAIT_TAP_DEMON"}
    /\ rnd.phases["WAIT_RUNNING"] > 0
    /\ Len(rnd.events) = 4

\* a round that timed out waiting for the button, and one whose tap could
\* not be verified
C37_WitnessTimeout ==
    /\ rnd.pc = "done"
    /\ rnd.outcome = "TIMEOUT_WAITING_FOR_DEMON"
    /\ DOMAIN rnd.phases = {"WAIT_RUNNING", "WAIT_TAP_DEMON"}
    /\ rnd.phases["WAIT_TAP_DEMON"] > 0

C37_WitnessFailure ==
    /\ rnd.pc = "done"
    /\ rnd.outcome = "UI_FLOW_FAILURE"
    /\ DOMAIN rnd.phases = {"WAIT_RUNNING", "WAIT_TAP_DEMON"}

\* C38: at return runs = successes + timeouts_running + timeouts_demon +
\* ui_failures, plus one if the last round was ABORTED_BY_USER; last_result
\* is absent exactly when runs = 0; aborted is true exactly when a round
\* returned ABORTED_BY_USER or a user interrupt hit the campaign loop; and
\* no round is in progress.
C38_AggregatesConsistent ==
    camp.pc = "returned" =>
        /\ camp.runs = camp.successes + camp.to_run + camp.to_demon + camp.ui_fail
                          + (IF camp.last_result = "ABORTED_BY_USER" THEN 1 ELSE 0)
        /\ camp.last_result = "None" <=> camp.runs = 0
        /\ camp.aborted <=> (camp.last_result = "ABORTED_BY_USER" \/ camp.stop_reason = "interrupt")
        /\ rnd = IdleRound

\* a dry run with positive phase timeouts and overall deadline
DryRound ==
    /\ cfg.dry_run
    /\ cfg.timeout_running_s > 0 /\ cfg.timeout_demon_s > 0 /\ cfg.overall_deadline_s > 0

\* C39: a dry run with positive timeouts and deadline makes no capture (and
\* so no classification), sends no tap to the device, records no error and
\* lets no exception out; unless the user interrupts it, it returns SUCCESS
\* having gone through the four phases in order.
C39_DryRunTouchesNothing ==
    DryRound =>
        /\ obs.captures = 0
        /\ rnd.taps = <<>>
        /\ rnd.errors = <<>>
        /\ rnd.pc # "raised"
        /\ (rnd.pc = "done" /\ ~obs.interrupted) =>
              /\ rnd.outcome = "SUCCESS"
              /\ rnd.events = <<<<"PHASE_START", "WAIT_RUNNING">>, <<"PHASE_END", "WAIT_RUNNING">>,
                                <<"PHASE_START", "WAIT_TAP_DEMON">>, <<"PHASE_END", "WAIT_TAP_DEMON">>,
                                <<"PHASE_START", "POST_DEMON_WAIT">>, <<"PHASE_END", "POST_DEMON_WAIT">>,
                                <<"PHASE_START", "END_GAME_SEQUENCE">>, <<"PHASE_END", "END_GAME_SEQUENCE">>>>
              /\ DOMAIN rnd.phases = {"WAIT_RUNNING", "WAIT_TAP_DEMON", "POST_DEMON_WAIT",
                                      "END_GAME_SEQUENCE"}

\* a dry run that returned SUCCESS, with a post-demon wait configured that
\* it did not sleep through
C39_Witness ==
    /\ DryRound
    /\ cfg.post_demon_wait_s > 0
    /\ cfg.verify_tap
    /\ rnd.pc = "done"
    /\ rnd.outcome = "SUCCESS"
    /\ rnd.now = 0
    /\ Len(rnd.events) = 8

\* C40: the run state is RUNNING when the watchdog starts and is RUNNING or
\* UNKNOWN ever after; the only step that changes it is the watchdog's
\* restart, which sets UNKNOWN; and once it is UNKNOWN it stays UNKNOWN,
\* whatever the handlers assign in between.
C40_RunStateOnlyToUnknown ==
    /\ AUTOMATION._state = "RUNNING"
    /\ [](AUTOMATION._state \in {"RUNNING", "UNKNOWN"})
    /\ [][AUTOMATION'._state # AUTOMATION._state =>
            (wd.pc = "restart" /\ AUTOMATION'._state = "UNKNOWN")]_vars
    /\ [][AUTOMATION._state = "UNKNOWN" => AUTOMATION'._state = "UNKNOWN"]_vars

\* a restart has set UNKNOWN, a handler has since assigned the mode, and the
\* watchdog is in a later iteration
C40_Witness ==
    /\ AUTOMATION._state = "UNKNOWN"
    /\ AUTOMATION._mode = "WAIT"
    /\ wd.iters >= 2
    /\ wd.pc = "sleep"

====
